---- MODULE Spec2Model ----
(***************************************************************************)
(* The multi-reference evaluation core of the Galen translation project:   *)
(* mt_eval/src/evaluator.py (class Evaluator) as a state machine.          *)
(*                                                                         *)
(* Texts.  A hypothesis is a sequence of tokens (" " is white space, any   *)
(* other token is a word), because the code inspects it (strip, blank      *)
(* test).  References and the Greek source are never inspected by the      *)
(* evaluator, only handed to the metric libraries, so they are opaque      *)
(* strings.                                                                *)
(*                                                                         *)
(* Scores.  Every score is an integer number of thousandths (1.0 = 1000).  *)
(* numpy means are kept as exact fractions [num, den]; floating-point      *)
(* rounding is not modelled.                                               *)
(*                                                                         *)
(* Metric libraries (sacrebleu, nltk, rouge_score, bert_score, bleurt,     *)
(* comet) are the environment: `scorer` fixes what they return for each    *)
(* hypothesis, `broken` names the libraries that raise on every call and   *)
(* `init_outcome` what happens when _setup_metrics tries to load each one. *)
(* use_gpu is False throughout.                                            *)
(***************************************************************************)
EXTENDS Integers, Sequences, FiniteSets, TLC

VARIABLES
    pc,               \* position of the driver (Pipeline.run / evaluator main)
    metrics,          \* Evaluator.metrics: the requested metric keys
    init_outcome,     \* environment: metric key -> outcome of loading its library
    broken,           \* environment: metric keys whose scorer raises on every call
    flaky,            \* environment: <<key, reference>> pairs on which the scorer raises
    scorer,           \* environment: hypothesis -> what the libraries return for it
    metric_handlers,  \* Evaluator.metric_handlers (its key set)
    parsed_chunks,    \* input: sequence of ParsedChunk
    translations,     \* input: chunk_id -> ordered mapping model -> Translation
    chunk_idx,        \* evaluate_all: index of the next chunk of parsed_chunks
    all_evaluations,  \* evaluate_all: the ChunkEvaluation records so far
    summary,          \* the result of aggregate_results (save_results)
    raised,           \* the exception that escaped to the caller, or "none"
    calls,            \* observation: every call into a metric library, in order
    log,              \* observation: the warnings logged by the evaluator
    blind_pc,         \* blind_translations.main: its position
    data,             \* blind_translations: the translations JSON that was loaded
    models_in_data,   \* blind_translations: the sorted models of the first chunk
    base_perm,        \* blind_translations: the shuffled models
    blind_idx,        \* blind_translations: position in sorted_chunk_ids (from 1)
    blinded_output,   \* blind_translations: chunk_id -> entries, in insertion order
    key_per_chunk,    \* blind_translations: chunk_id -> order, in insertion order
    parser_pc,        \* InputParser.parse_content: its position
    parts,            \* parse_content: the result of re.split on the document
    part_i,           \* parse_content: the index i into parts (counted from 0)
    chunks,           \* parse_content: the ParsedChunk list built so far
    tr_pc,            \* translator: "idle", the translate_* method running, "returned"
    attempt,          \* translate_*: the loop variable of range(max_retries)
    api_calls,        \* observation: the outcomes of the API requests of the call
    returned,         \* translate_*: <<>> while running, then <<what it returned>>
    tc_pc,            \* translate_chunk: its position
    self_models,      \* Translator.models: the model names, in order
    parallel,         \* translate_chunk: the parallel argument
    worker_result,    \* environment: model -> the Translation its translate_* returns
    futures,          \* translate_chunk: the futures submitted, each with its state
    model_idx,        \* translate_chunk: position of the sequential loop (from 1)
    results,          \* translate_chunk: the results dict, in insertion order
    legacy_pc,        \* TranslationEvaluator.evaluate_translation_file: its position
    legacy_input,     \* the two JSON files, and the iteration order of the set model_names
    item_idx,         \* evaluate_translation_file: position in items (from 1)
    all_results,      \* evaluate_translation_file: the EvaluationResult list
    model_names,      \* evaluate_translation_file: the set of models evaluated
    aggregated        \* what evaluate_translation_file returns

evaluator_vars ==
    <<pc, metrics, init_outcome, broken, flaky, scorer, metric_handlers, parsed_chunks,
      translations, chunk_idx, all_evaluations, summary, raised, calls, log>>

blind_vars ==
    <<blind_pc, data, models_in_data, base_perm, blind_idx, blinded_output, key_per_chunk>>

parser_vars == <<parser_pc, parts, part_i, chunks>>

\* the variables of the tools around the evaluator other than blind_translations
retry_vars == <<tr_pc, attempt, api_calls, returned>>

dispatch_vars ==
    <<tc_pc, self_models, parallel, worker_result, futures, model_idx, results>>

legacy_vars == <<legacy_pc, legacy_input, item_idx, all_results, model_names, aggregated>>

tool_vars == <<parser_vars, retry_vars, dispatch_vars, legacy_vars>>

vars == <<evaluator_vars, blind_vars, tool_vars>>

(***************************************************************************)
(* Bounds of the model.                                                    *)
(***************************************************************************)
MaxRequested == 2   \* metrics requested at once (configuration runs)
MaxRefs == 2        \* reference translations of a chunk (scoring runs)
MaxChunks == 2      \* parsed chunks of a pipeline run
MaxEvals == 3       \* ChunkEvaluation records handed to aggregate_results

(***************************************************************************)
(* Sequence helpers.                                                       *)
(***************************************************************************)
Range(s) == {s[i] : i \in 1..Len(s)}

RECURSIVE SeqsUpTo(_, _)
\* all sequences over S of length 0..n
SeqsUpTo(S, n) ==
    IF n = 0 THEN {<<>>}
    ELSE LET shorter == SeqsUpTo(S, n - 1)
         IN shorter \cup {Append(s, x) : s \in {t \in shorter : Len(t) = n - 1}, x \in S}

DistinctSeqs(S, n) ==
    {s \in SeqsUpTo(S, n) : \A i, j \in 1..Len(s) : i # j => s[i] # s[j]}

(***************************************************************************)
(* The metrics.                                                            *)
(***************************************************************************)
MetricKeys == {"bleu", "chrf", "meteor", "rouge", "bertscore", "bleurt", "comet"}

DefaultMetrics == {"bleu", "chrf", "meteor", "rouge", "bertscore", "comet"}

\* the order in which _setup_metrics loads the libraries
SetupOrder == <<"bleu", "chrf", "meteor", "rouge", "bertscore", "bleurt", "comet">>

\* metric_name of the EvaluationScore each evaluate_* method builds
MetricName(key) ==
    CASE key = "bleu" -> "BLEU-4"
      [] key = "chrf" -> "chrF++"
      [] key = "meteor" -> "METEOR"
      [] key = "rouge" -> "ROUGE-L"
      [] key = "bertscore" -> "BERTScore"
      [] key = "bleurt" -> "BLEURT"
      [] key = "comet" -> "COMET"

\* the two multi-reference policies of the module docstring
NativeMetrics == {"bleu", "chrf", "meteor"}
MaxMetrics == {"rouge", "bertscore", "bleurt", "comet"}

(***************************************************************************)
(* Evaluator.__init__ / _setup_metrics.                                    *)
(* Loading a library ends "ok", with an ImportError, or with another       *)
(* exception.  bleu, chrf, rouge and bertscore are guarded by              *)
(* `except ImportError` alone; meteor, bleurt and comet also by            *)
(* `except Exception`.                                                     *)
(***************************************************************************)
InitOutcomes == {"ok", "ImportError", "Exception"}

CaughtAtSetup(key) ==
    IF key \in {"meteor", "bleurt", "comet"}
    THEN {"ImportError", "Exception"}
    ELSE {"ImportError"}

RECURSIVE SetupFrom(_, _, _, _)
\* the if-blocks of _setup_metrics from position i on, with `handlers` set so far
SetupFrom(requested, outcome, i, handlers) ==
    IF i > Len(SetupOrder)
    THEN IF handlers = {}
         THEN [handlers |-> handlers, raised |-> "RuntimeError"]
         ELSE [handlers |-> handlers, raised |-> "none"]
    ELSE LET key == SetupOrder[i]
         IN IF key \notin requested
            THEN SetupFrom(requested, outcome, i + 1, handlers)
            ELSE IF outcome[key] = "ok"
            THEN SetupFrom(requested, outcome, i + 1, handlers \cup {key})
            ELSE IF outcome[key] \in CaughtAtSetup(key)
            THEN SetupFrom(requested, outcome, i + 1, handlers)
            ELSE [handlers |-> handlers, raised |-> outcome[key]]

SetupMetrics(requested, outcome) == SetupFrom(requested, outcome, 1, {})

(***************************************************************************)
(* Hypothesis texts.                                                       *)
(***************************************************************************)
RECURSIVE LStrip(_)
LStrip(s) == IF s # <<>> /\ Head(s) = " " THEN LStrip(Tail(s)) ELSE s

RECURSIVE RStrip(_)
RStrip(s) ==
    IF s # <<>> /\ s[Len(s)] = " " THEN RStrip(SubSeq(s, 1, Len(s) - 1)) ELSE s

\* str.strip()
Strip(s) == RStrip(LStrip(s))

\* a blank test that forgets strip()
IsEmptyTranslation(translation) == translation = <<>>

\* evaluate_chunk: `not translation or translation.strip() == ''`
IsBlankTranslation(translation) == translation = <<>> \/ Strip(translation) = <<>>

\* str.startswith('ERROR:')
StartsWithError(text) == text # <<>> /\ Head(text) = "ERROR:"

WordText == <<"w">>
ErrorText == <<"ERROR:", " ", "Empty", " ", "response", " ", "returned">>
EmptyText == <<>>
SpaceText == <<" ", " ">>

HypTexts == {WordText, ErrorText, EmptyText, SpaceText}
ScorableTexts == {t \in HypTexts : ~IsBlankTranslation(t)}

RefOrder == <<"r1", "r2", "r3", "r4">>
\* the reference texts in use: the first MaxRefs of RefOrder
RefTexts == {RefOrder[i] : i \in 1..MaxRefs}
\* reference_translations of a chunk: at least one reference (parser.py)
RefLists == DistinctSeqs(RefTexts, MaxRefs) \ {<<>>}

(***************************************************************************)
(* The metric libraries.  For a hypothesis h, scorer[h].pair[r] is the     *)
(* level (0, 1 or 2) at which h matches the single reference r and         *)
(* scorer[h].full the level at which it matches a list of two or more      *)
(* references.  LibraryValue turns a level into the number the library of  *)
(* each metric returns on its own scale.                                   *)
(***************************************************************************)
Levels == {0, 1, 2}

ScorerWorlds == [pair : [RefTexts -> Levels], full : Levels]

LibraryValue(key, level) ==
    CASE key \in {"bleu", "chrf"} -> level * 50          \* sacrebleu: 0..100
      [] key \in {"meteor", "rouge", "bertscore"} -> level * 500
      [] key \in {"bleurt", "comet"} -> level * 1000 - 500  \* unbounded

\* the level of one library call with the given reference list
CallLevel(hypothesis, references) ==
    IF Len(references) = 1
    THEN scorer[hypothesis].pair[references[1]]
    ELSE scorer[hypothesis].full

\* one call into the library of `key`: the number it returns, or <<>> if it raises
LibraryCall(key, hypothesis, references) ==
    IF key \in broken \/ (Len(references) = 1 /\ <<key, references[1]>> \in flaky)
    THEN <<>>
    ELSE <<LibraryValue(key, CallLevel(hypothesis, references))>>

(***************************************************************************)
(* What an evaluate_* method hands back: the scores it returns, the        *)
(* library calls it made, the warnings it logged, and whether an exception *)
(* left it.                                                                *)
(***************************************************************************)
Returned(scores, cs) == [scores |-> scores, calls |-> cs, exc |-> FALSE, warnings |-> <<>>]
Raised(cs) == [scores |-> <<>>, calls |-> cs, exc |-> TRUE, warnings |-> <<>>]

\* logger.warning(f"... calculation failed: {e}")
FailureWarning(key) == [event |-> "calculation_failed", metric |-> key]

\* a body with no try/except around it
NoExcept(key, body) == body

\* try: body  except Exception: logger.warning(...); return []
TryExcept(key, body) ==
    IF body.exc
    THEN [scores |-> <<>>, calls |-> body.calls, exc |-> FALSE,
          warnings |-> <<FailureWarning(key)>>]
    ELSE body

\* a; b  (b is not reached when a raises)
Then(a, b) ==
    IF a.exc THEN a
    ELSE [scores |-> a.scores \o b.scores, calls |-> a.calls \o b.calls, exc |-> b.exc,
          warnings |-> a.warnings \o b.warnings]

Call(key, hypothesis, references) ==
    [metric |-> key, hypothesis |-> hypothesis, references |-> references]

\* score=result.score / 100: sacrebleu's 0..100 as thousandths of 1.0
Normalize(raw) == raw * 10

(***************************************************************************)
(* Native multi-reference metrics: one library call with every reference.  *)
(***************************************************************************)
NativeDetails(key, raw, references) ==
    CASE key = "bleu" -> [raw_score |-> raw, num_references |-> Len(references)]
      [] key = "chrf" -> [raw_score |-> raw, num_references |-> Len(references),
                          word_order |-> 2]
      [] key = "meteor" -> [num_references |-> Len(references)]

\* the body of the try block, given what the library call `out` came to
NativeResult(key, hypothesis, references, out) ==
    IF out = <<>>
    THEN Raised(<<Call(key, hypothesis, references)>>)
    ELSE Returned(
           << [metric_name |-> MetricName(key),
               score |-> IF key = "meteor" THEN out[1] ELSE Normalize(out[1]),
               details |-> NativeDetails(key, out[1], references)] >>,
           <<Call(key, hypothesis, references)>>)

\* a native metric that is handed the first reference alone
NativeBodyFirstReference(key, hypothesis, references) ==
    NativeResult(key, hypothesis, <<references[1]>>,
                 LibraryCall(key, hypothesis, <<references[1]>>))

NativeBody(key, hypothesis, references) ==
    NativeResult(key, hypothesis, references, LibraryCall(key, hypothesis, references))

evaluate_bleu(hypothesis, references) ==
    IF "bleu" \notin metric_handlers THEN Returned(<<>>, <<>>)
    ELSE TryExcept("bleu", NativeBody("bleu", hypothesis, references))

evaluate_chrf(hypothesis, references) ==
    IF "chrf" \notin metric_handlers THEN Returned(<<>>, <<>>)
    ELSE TryExcept("chrf", NativeBody("chrf", hypothesis, references))

evaluate_meteor(hypothesis, references) ==
    IF "meteor" \notin metric_handlers THEN Returned(<<>>, <<>>)
    ELSE TryExcept("meteor", NativeBody("meteor", hypothesis, references))

(***************************************************************************)
(* Max-over-references metrics: one library call per reference, keeping    *)
(* the best.  `best` is <<>> while the running best is the initial value   *)
(* (None for ROUGE-L and BERTScore's best_result, -inf for BLEURT and      *)
(* COMET) and <<value>> afterwards; BERTScore compares with best_f1,       *)
(* which starts at -1.                                                     *)
(***************************************************************************)
\* the comparison turned round: the loop keeps the lowest score
ImprovesReversed(key, value, best) == best = <<>> \/ value < best[1]

\* the comparison made non-strict: a later reference that ties takes over
ImprovesOnTie(key, value, best) == best = <<>> \/ value >= best[1]

\* `if score > best_score` (ROUGE-L: `best_score is None or ...`)
Improves(key, value, best) ==
    IF key = "bertscore"
    THEN value > (IF best = <<>> THEN -1000 ELSE best[1])
    ELSE best = <<>> \/ value > best[1]

RECURSIVE MaxLoop(_, _, _, _, _, _, _)
\* a loop that passes over a reference on which the call raised
MaxStepSkipping(key, hypothesis, references, i, best, best_ref_idx, cs, out) ==
    IF out = <<>>
    THEN MaxLoop(key, hypothesis, references, i + 1, best, best_ref_idx, cs)
    ELSE IF Improves(key, out[1], best)
    THEN MaxLoop(key, hypothesis, references, i + 1, out, i, cs)
    ELSE MaxLoop(key, hypothesis, references, i + 1, best, best_ref_idx, cs)

\* one pass of the loop: the call for references[i] came to `out`
MaxStep(key, hypothesis, references, i, best, best_ref_idx, cs, out) ==
    IF out = <<>>
    THEN [best |-> best, best_ref_idx |-> best_ref_idx, calls |-> cs, exc |-> TRUE]
    ELSE IF Improves(key, out[1], best)
    THEN MaxLoop(key, hypothesis, references, i + 1, out, i, cs)
    ELSE MaxLoop(key, hypothesis, references, i + 1, best, best_ref_idx, cs)

\* the for-loop over enumerate(references) from index i on (best_ref_idx = ref_idx + 1
\* with ref_idx counted from 0 is i counted from 1)
MaxLoop(key, hypothesis, references, i, best, best_ref_idx, cs) ==
    IF i > Len(references)
    THEN [best |-> best, best_ref_idx |-> best_ref_idx, calls |-> cs, exc |-> FALSE]
    ELSE MaxStep(key, hypothesis, references, i, best, best_ref_idx,
                 Append(cs, Call(key, hypothesis, <<references[i]>>)),
                 LibraryCall(key, hypothesis, <<references[i]>>))

\* what follows the loop: the library raised, or best_result[...] of None raises,
\* or the EvaluationScore is returned
MaxResult(key, references, loop) ==
    IF loop.exc \/ loop.best = <<>>
    THEN Raised(loop.calls)
    ELSE Returned(
           << [metric_name |-> MetricName(key),
               score |-> loop.best[1],
               details |-> [best_reference |-> loop.best_ref_idx,
                            num_references |-> Len(references),
                            aggregation |-> "max"]] >>, loop.calls)

MaxBody(key, hypothesis, references) ==
    MaxResult(key, references, MaxLoop(key, hypothesis, references, 1, <<>>, 0, <<>>))

evaluate_rouge(hypothesis, references) ==
    IF "rouge" \notin metric_handlers THEN Returned(<<>>, <<>>)
    ELSE TryExcept("rouge", MaxBody("rouge", hypothesis, references))

evaluate_bertscore(hypothesis, references) ==
    IF "bertscore" \notin metric_handlers THEN Returned(<<>>, <<>>)
    ELSE TryExcept("bertscore", MaxBody("bertscore", hypothesis, references))

evaluate_bleurt(hypothesis, references) ==
    IF "bleurt" \notin metric_handlers THEN Returned(<<>>, <<>>)
    ELSE TryExcept("bleurt", MaxBody("bleurt", hypothesis, references))

\* the source text is passed to the model with every reference
evaluate_comet(hypothesis, references, source) ==
    IF "comet" \notin metric_handlers THEN Returned(<<>>, <<>>)
    ELSE TryExcept("comet", MaxBody("comet", hypothesis, references))

(***************************************************************************)
(* evaluate_single, evaluate_per_reference, evaluate_chunk.                *)
(* `source` is the Greek text: "" stands for an absent or empty source.    *)
(***************************************************************************)
evaluate_single(hypothesis, references, source) ==
    Then(evaluate_bleu(hypothesis, references),
    Then(evaluate_chrf(hypothesis, references),
    Then(evaluate_meteor(hypothesis, references),
    Then(evaluate_rouge(hypothesis, references),
    Then(evaluate_bertscore(hypothesis, references),
    Then(evaluate_bleurt(hypothesis, references),
         IF source # ""
         THEN evaluate_comet(hypothesis, references, source)
         ELSE Returned(<<>>, <<>>)))))))

\* {score.metric_name: score.score for score in ref_scores}, in insertion order
ScoreDict(scores) == [i \in 1..Len(scores) |-> <<scores[i].metric_name, scores[i].score>>]

\* a per-reference pass that does not hand the source on, so COMET is left out
PerReferenceScoresNoSource(hypothesis, reference, source) ==
    Then(evaluate_bleu(hypothesis, <<reference>>),
    Then(evaluate_chrf(hypothesis, <<reference>>),
    Then(evaluate_meteor(hypothesis, <<reference>>),
    Then(evaluate_rouge(hypothesis, <<reference>>),
    Then(evaluate_bertscore(hypothesis, <<reference>>),
         evaluate_bleurt(hypothesis, <<reference>>))))))

\* the body of evaluate_per_reference's loop: every metric against [reference]
PerReferenceScores(hypothesis, reference, source) ==
    Then(evaluate_bleu(hypothesis, <<reference>>),
    Then(evaluate_chrf(hypothesis, <<reference>>),
    Then(evaluate_meteor(hypothesis, <<reference>>),
    Then(evaluate_rouge(hypothesis, <<reference>>),
    Then(evaluate_bertscore(hypothesis, <<reference>>),
    Then(evaluate_bleurt(hypothesis, <<reference>>),
         IF source # ""
         THEN evaluate_comet(hypothesis, <<reference>>, source)
         ELSE Returned(<<>>, <<>>)))))))

RECURSIVE PerReferenceFrom(_, _, _, _, _, _, _)
\* per_ref_scores[ref_id] = scores, with ref_id = f'ref{ref_idx}' as <<"ref", ref_idx>>
PerReferenceStep(hypothesis, references, source, ref_idx, acc, cs, ws, one) ==
    IF one.exc
    THEN [per_ref |-> acc, calls |-> cs \o one.calls, exc |-> TRUE,
          warnings |-> ws \o one.warnings]
    ELSE PerReferenceFrom(hypothesis, references, source, ref_idx + 1,
                          Append(acc, <<<<"ref", ref_idx>>, one.scores>>),
                          cs \o one.calls, ws \o one.warnings)

\* the loop of evaluate_per_reference from reference ref_idx on; `acc` is
\* per_ref_scores so far, in insertion order
PerReferenceFrom(hypothesis, references, source, ref_idx, acc, cs, ws) ==
    IF ref_idx > Len(references)
    THEN [per_ref |-> acc, calls |-> cs, exc |-> FALSE, warnings |-> ws]
    ELSE PerReferenceStep(hypothesis, references, source, ref_idx, acc, cs, ws,
                          PerReferenceScores(hypothesis, references[ref_idx], source))

evaluate_per_reference(hypothesis, references, source) ==
    PerReferenceFrom(hypothesis, references, source, 1, <<>>, <<>>, <<>>)

SkipWarning(chunk_id, model_name) ==
    [event |-> "empty_translation", chunk_id |-> chunk_id, model_name |-> model_name]

\* a record whose primary scores are overwritten by the 'ref1' scores of the
\* breakdown when there is one
BuildEvaluationFromBreakdown(chunk_id, model_name, single, per) ==
    [evaluation |->
        [chunk_id |-> chunk_id,
         model_name |-> model_name,
         scores |-> IF per.per_ref = <<>> THEN single.scores ELSE per.per_ref[1][2],
         per_reference_scores |->
            [i \in 1..Len(per.per_ref) |->
                <<per.per_ref[i][1], ScoreDict(per.per_ref[i][2])>>]],
     calls |-> single.calls \o per.calls,
     log |-> single.warnings \o per.warnings,
     exc |-> single.exc \/ per.exc]

\* ChunkEvaluation(chunk_id, model_name, scores, per_reference_scores), with what
\* it took to compute it
BuildEvaluation(chunk_id, model_name, single, per) ==
    [evaluation |->
        [chunk_id |-> chunk_id,
         model_name |-> model_name,
         scores |-> single.scores,
         per_reference_scores |->
            [i \in 1..Len(per.per_ref) |->
                <<per.per_ref[i][1], ScoreDict(per.per_ref[i][2])>>]],
     calls |-> single.calls \o per.calls,
     log |-> single.warnings \o per.warnings,
     exc |-> single.exc \/ per.exc]

\* the per-reference pass, made only when the flag is set (and the first pass
\* returned)
PerReferencePass(translation, reference_translations, source_text, include_per_reference, single) ==
    IF include_per_reference /\ ~single.exc
    THEN evaluate_per_reference(translation, reference_translations, source_text)
    ELSE [per_ref |-> <<>>, calls |-> <<>>, exc |-> FALSE, warnings |-> <<>>]

ScoreModel(chunk_id, source_text, model_name, translation, reference_translations, include_per_reference, single) ==
    BuildEvaluation(chunk_id, model_name, single,
                    PerReferencePass(translation, reference_translations, source_text,
                                     include_per_reference, single))

\* the body of evaluate_chunk's loop for one model, past the blank test
EvaluateModel(chunk_id, source_text, model_name, translation, reference_translations, include_per_reference) ==
    ScoreModel(chunk_id, source_text, model_name, translation, reference_translations,
               include_per_reference,
               evaluate_single(translation, reference_translations, source_text))

RECURSIVE ChunkLoop(_, _, _, _, _, _, _)
\* evaluations.append(evaluation), unless an exception left the scoring
AfterModel(chunk_id, source_text, model_translations, reference_translations, include_per_reference, i, acc, one) ==
    IF one.exc
    THEN [acc EXCEPT !.calls = @ \o one.calls, !.log = @ \o one.log, !.exc = TRUE]
    ELSE ChunkLoop(chunk_id, source_text, model_translations, reference_translations,
                   include_per_reference, i + 1,
                   [acc EXCEPT !.evaluations = Append(@, one.evaluation),
                               !.calls = @ \o one.calls,
                               !.log = @ \o one.log])

\* evaluate_chunk's loop over model_translations.items() from position i on
ChunkLoop(chunk_id, source_text, model_translations, reference_translations, include_per_reference, i, acc) ==
    IF i > Len(model_translations)
    THEN acc
    ELSE IF IsBlankTranslation(model_translations[i][2])
    THEN ChunkLoop(chunk_id, source_text, model_translations, reference_translations,
                   include_per_reference, i + 1,
                   [acc EXCEPT !.log =
                        Append(@, SkipWarning(chunk_id, model_translations[i][1]))])
    ELSE AfterModel(chunk_id, source_text, model_translations, reference_translations,
                    include_per_reference, i, acc,
                    EvaluateModel(chunk_id, source_text, model_translations[i][1],
                                  model_translations[i][2], reference_translations,
                                  include_per_reference))

evaluate_chunk(chunk_id, source_text, model_translations, reference_translations, include_per_reference) ==
    ChunkLoop(chunk_id, source_text, model_translations, reference_translations,
              include_per_reference, 1,
              [evaluations |-> <<>>, calls |-> <<>>, log |-> <<>>, exc |-> FALSE])

(***************************************************************************)
(* aggregate_results.  A Python dict that is iterated is a sequence of     *)
(* keys in insertion order; a dict that is only read by key is a function. *)
(* A mean is the exact fraction [num, den].                                *)
(***************************************************************************)
RECURSIVE FlattenScores(_)
\* the (model, metric, score) appends of the first loop, in order
FlattenScores(evaluations) ==
    IF evaluations = <<>> THEN <<>>
    ELSE LET e == Head(evaluations)
         IN [i \in 1..Len(e.scores) |->
                [model |-> e.model_name,
                 metric |-> e.scores[i].metric_name,
                 score |-> e.scores[i].score]]
            \o FlattenScores(Tail(evaluations))

RECURSIVE InsertionOrder(_)
\* the keys of a dict filled in the order `keys`: each key once, at its first use
InsertionOrder(keys) ==
    IF keys = <<>> THEN <<>>
    ELSE LET before == InsertionOrder(SubSeq(keys, 1, Len(keys) - 1))
             k == keys[Len(keys)]
         IN IF k \in Range(before) THEN before ELSE Append(before, k)

\* a dict that keeps only the model written last
ModelsOfLast(triples) ==
    IF triples = <<>> THEN <<>> ELSE <<triples[Len(triples)].model>>

\* scores_by_model_metric: its models, a model's metrics, and a score list
ModelsOf(triples) == InsertionOrder([i \in 1..Len(triples) |-> triples[i].model])

MetricsOf(triples, model) ==
    LET OfModel(t) == t.model = model
        mine == SelectSeq(triples, OfModel)
    IN InsertionOrder([i \in 1..Len(mine) |-> mine[i].metric])

\* a score list that is not told apart by metric
ScoresOfAnyMetric(triples, model, metric) ==
    LET Mine(t) == t.model = model
        mine == SelectSeq(triples, Mine)
    IN [i \in 1..Len(mine) |-> mine[i].score]

ScoresOf(triples, model, metric) ==
    LET Mine(t) == t.model = model /\ t.metric = metric
        mine == SelectSeq(triples, Mine)
    IN [i \in 1..Len(mine) |-> mine[i].score]

RECURSIVE SumSeq(_)
SumSeq(s) == IF s = <<>> THEN 0 ELSE Head(s) + SumSeq(Tail(s))

\* np.mean, np.min, np.max
Mean(s) == [num |-> SumSeq(s), den |-> Len(s)]
MinOf(s) == CHOOSE x \in Range(s) : \A y \in Range(s) : x <= y
MaxOf(s) == CHOOSE x \in Range(s) : \A y \in Range(s) : x >= y

MeanLess(a, b) == a.num * b.den < b.num * a.den
MeanEq(a, b) == a.num * b.den = b.num * a.den

RECURSIVE ConcatAll(_)
ConcatAll(ss) == IF ss = <<>> THEN <<>> ELSE Head(ss) \o ConcatAll(Tail(ss))

\* all_model_scores: the model's score lists, extended metric by metric
AllModelScores(triples, model) ==
    LET ms == MetricsOf(triples, model)
    IN ConcatAll([i \in 1..Len(ms) |-> ScoresOf(triples, model, ms[i])])

\* model_averages.items()
ModelAverages(triples) ==
    LET models == ModelsOf(triples)
    IN [i \in 1..Len(models) |->
          LET all == AllModelScores(triples, models[i])
          IN <<models[i], IF all # <<>> THEN Mean(all) ELSE [num |-> 0, den |-> 1]>>]

\* model_averages.items() left as it is: the sort forgotten
Unsorted(items) == items

RECURSIVE SortedDescending(_)
\* sorted(items, key=lambda x: x[1], reverse=True): stable, so items with equal
\* keys keep their order
SortedDescending(items) ==
    IF items = <<>> THEN <<>>
    ELSE LET before == SortedDescending(SubSeq(items, 1, Len(items) - 1))
             x == items[Len(items)]
             smaller == {j \in 1..Len(before) : MeanLess(before[j][2], x[2])}
             at == IF smaller = {} THEN Len(before) + 1
                   ELSE CHOOSE j \in smaller : \A k \in smaller : j <= k
         IN SubSeq(before, 1, at - 1) \o <<x>> \o SubSeq(before, at, Len(before))

\* the last item with the greatest key (a `>=` scan)
LastMax(items) ==
    LET best == CHOOSE j \in 1..Len(items) :
                    /\ \A k \in 1..Len(items) : ~MeanLess(items[j][2], items[k][2])
                    /\ \A k \in (j + 1)..Len(items) : MeanLess(items[k][2], items[j][2])
    IN items[best]

\* max(items, key=lambda x: x[1]): the first item with the greatest key
FirstMax(items) ==
    LET best == CHOOSE j \in 1..Len(items) :
                    /\ \A k \in 1..Len(items) : ~MeanLess(items[j][2], items[k][2])
                    /\ \A k \in 1..(j - 1) : MeanLess(items[k][2], items[j][2])
    IN items[best]

\* summary['by_metric'][metric] without best_model: model -> mean, in the order
\* of the models of scores_by_model_metric
MetricMeans(triples, metric) ==
    LET models == ModelsOf(triples)
        Scored(m) == ScoresOf(triples, m, metric) # <<>>
        scored == SelectSeq(models, Scored)
    IN [i \in 1..Len(scored) |-> <<scored[i], Mean(ScoresOf(triples, scored[i], metric))>>]

\* ChunkEvaluation.to_dict (score_details left out)
ToDict(e) ==
    [chunk_id |-> e.chunk_id,
     model_name |-> e.model_name,
     scores |-> ScoreDict(e.scores),
     per_reference_scores |-> e.per_reference_scores]

\* the appends to per_ref_by_model_metric[model][metric][ref_id] made for one
\* evaluation, and for all of them
PerReferenceAppends(e) ==
    ConcatAll([r \in 1..Len(e.per_reference_scores) |->
        [j \in 1..Len(e.per_reference_scores[r][2]) |->
            [model |-> e.model_name,
             metric |-> e.per_reference_scores[r][2][j][1],
             ref_id |-> e.per_reference_scores[r][1],
             score |-> e.per_reference_scores[r][2][j][2]]]])

FlattenPerReference(evaluations) ==
    ConcatAll([i \in 1..Len(evaluations) |-> PerReferenceAppends(evaluations[i])])

PerReferenceScoresOf(quads, model, metric, ref_id) ==
    LET Mine(q) == q.model = model /\ q.metric = metric /\ q.ref_id = ref_id
        mine == SelectSeq(quads, Mine)
    IN [i \in 1..Len(mine) |-> mine[i].score]

\* summary['by_reference'][model][metric][ref_id]: mean and count
ByReference(quads) ==
    [m \in {quads[i].model : i \in 1..Len(quads)} |->
        [k \in {quads[i].metric : i \in {i \in 1..Len(quads) : quads[i].model = m}} |->
            [r \in {quads[i].ref_id : i \in {i \in 1..Len(quads) :
                                                quads[i].model = m /\ quads[i].metric = k}} |->
                [mean |-> Mean(PerReferenceScoresOf(quads, m, k, r)),
                 count |-> Len(PerReferenceScoresOf(quads, m, k, r))]]]]

MethodologyDetails ==
    [m \in {"bleu-4", "chrf++", "meteor", "rouge-l", "bertscore", "comet", "bleurt"} |->
        IF m \in {"bleu-4", "chrf++", "meteor"}
        THEN "multi-reference" ELSE "max across references"]

aggregate_results(evaluations) ==
    LET triples == FlattenScores(evaluations)
        models == ModelsOf(triples)
        metricNames == {triples[i].metric : i \in 1..Len(triples)}
    IN [methodology |-> "multi-reference",
        methodology_details |-> MethodologyDetails,
        by_model |->
            [m \in Range(models) |->
                [k \in Range(MetricsOf(triples, m)) |->
                    LET scores == ScoresOf(triples, m, k)
                    IN [mean |-> Mean(scores), min |-> MinOf(scores),
                        max |-> MaxOf(scores), count |-> Len(scores)]]],
        by_metric |->
            [k \in metricNames |->
                LET means == MetricMeans(triples, k)
                    best == FirstMax(means)
                IN [means |-> means, best_model |-> [name |-> best[1], score |-> best[2]]]],
        by_reference |-> ByReference(FlattenPerReference(evaluations)),
        overall_rankings |-> SortedDescending(ModelAverages(triples)),
        detailed_scores |-> [i \in 1..Len(evaluations) |-> ToDict(evaluations[i])]]

(***************************************************************************)
(* The run: Evaluator(...), evaluate_all(parsed_chunks, translations) one  *)
(* chunk at a time, then save_results(evaluations).                        *)
(***************************************************************************)
NoSummary == [methodology |-> "none"]

\* the models taken from the mapping last to first
ModelTranslationsReversed(mapping) ==
    [i \in 1..Len(mapping) |->
        <<mapping[Len(mapping) + 1 - i][1], mapping[Len(mapping) + 1 - i][2].translation>>]

\* evaluate_all: model -> trans_obj.translation, in the mapping's order
ModelTranslations(mapping) ==
    [i \in 1..Len(mapping) |-> <<mapping[i][1], mapping[i][2].translation>>]

NoTranslationsWarning(chunk_id) == [event |-> "no_translations", chunk_id |-> chunk_id]

\* __init__: the handlers stay; an exception of _setup_metrics leaves __init__
Constructed(setup) ==
    /\ metric_handlers' = setup.handlers
    /\ raised' = setup.raised
    /\ pc' = IF setup.raised = "none" THEN "ready" ELSE "fatal"

\* evaluator = Evaluator(metrics=...)
Construct ==
    /\ pc = "new"
    /\ Constructed(SetupMetrics(metrics, init_outcome))
    /\ UNCHANGED <<metrics, init_outcome, broken, flaky, scorer, parsed_chunks, translations,
                   chunk_idx, all_evaluations, summary, calls, log>>
    /\ UNCHANGED <<blind_vars, tool_vars>>

\* evaluate_all, one pass of its loop: `chunk_id not in translations`
SkipChunk ==
    /\ pc = "ready"
    /\ chunk_idx <= Len(parsed_chunks)
    /\ parsed_chunks[chunk_idx].chunk_id \notin DOMAIN translations
    /\ log' = Append(log, NoTranslationsWarning(parsed_chunks[chunk_idx].chunk_id))
    /\ chunk_idx' = chunk_idx + 1
    /\ UNCHANGED <<pc, metrics, init_outcome, broken, flaky, scorer, metric_handlers,
                   parsed_chunks, translations, all_evaluations, summary, raised, calls>>
    /\ UNCHANGED <<blind_vars, tool_vars>>

\* all_evaluations.extend(chunk_evaluations), or the exception leaves evaluate_all
ExtendEvaluations(r) ==
    /\ calls' = calls \o r.calls
    /\ log' = log \o r.log
    /\ IF r.exc
       THEN /\ raised' = "Exception"
            /\ pc' = "failed"
            /\ UNCHANGED <<all_evaluations, chunk_idx>>
       ELSE /\ all_evaluations' = all_evaluations \o r.evaluations
            /\ chunk_idx' = chunk_idx + 1
            /\ UNCHANGED <<raised, pc>>

\* evaluate_all, one pass of its loop: the chunk is evaluated (include_per_reference
\* keeps its default, True)
EvaluateChunk ==
    /\ pc = "ready"
    /\ chunk_idx <= Len(parsed_chunks)
    /\ parsed_chunks[chunk_idx].chunk_id \in DOMAIN translations
    /\ ExtendEvaluations(
          evaluate_chunk(parsed_chunks[chunk_idx].chunk_id,
                         parsed_chunks[chunk_idx].greek_text,
                         ModelTranslations(translations[parsed_chunks[chunk_idx].chunk_id]),
                         parsed_chunks[chunk_idx].reference_translations, TRUE))
    /\ UNCHANGED <<metrics, init_outcome, broken, flaky, scorer, metric_handlers,
                   parsed_chunks, translations, summary>>
    /\ UNCHANGED <<blind_vars, tool_vars>>

\* evaluate_all returns all_evaluations
EvaluateAllReturn ==
    /\ pc = "ready"
    /\ chunk_idx > Len(parsed_chunks)
    /\ pc' = "evaluated"
    /\ UNCHANGED <<metrics, init_outcome, broken, flaky, scorer, metric_handlers, parsed_chunks,
                   translations, chunk_idx, all_evaluations, summary, raised, calls, log>>
    /\ UNCHANGED <<blind_vars, tool_vars>>

\* a save that does not wait for evaluate_all to return
SaveResultsEarly ==
    /\ pc \in {"ready", "evaluated"}
    /\ summary' = aggregate_results(all_evaluations)
    /\ pc' = "saved"
    /\ UNCHANGED <<metrics, init_outcome, broken, flaky, scorer, metric_handlers, parsed_chunks,
                   translations, chunk_idx, all_evaluations, raised, calls, log>>
    /\ UNCHANGED <<blind_vars, tool_vars>>

\* an aggregation that empties the score lists it has read
SaveResultsDraining ==
    /\ pc = "evaluated"
    /\ summary' = aggregate_results(all_evaluations)
    /\ all_evaluations' =
          [i \in 1..Len(all_evaluations) |-> [all_evaluations[i] EXCEPT !.scores = <<>>]]
    /\ pc' = "saved"
    /\ UNCHANGED <<metrics, init_outcome, broken, flaky, scorer, metric_handlers, parsed_chunks,
                   translations, chunk_idx, raised, calls, log>>
    /\ UNCHANGED <<blind_vars, tool_vars>>

\* save_results(evaluations): summary = self.aggregate_results(evaluations)
SaveResults ==
    /\ pc = "evaluated"
    /\ summary' = aggregate_results(all_evaluations)
    /\ pc' = "saved"
    /\ UNCHANGED <<metrics, init_outcome, broken, flaky, scorer, metric_handlers, parsed_chunks,
                   translations, chunk_idx, all_evaluations, raised, calls, log>>
    /\ UNCHANGED <<blind_vars, tool_vars>>

Next == Construct \/ SkipChunk \/ EvaluateChunk \/ EvaluateAllReturn \/ SaveResults

(***************************************************************************)
(* Inputs.                                                                 *)
(***************************************************************************)
\* the Translation records of translator.py, by (translation, status), and a
\* white-space translation as a translations JSON file may hold
TranslationRecords ==
    { [translation |-> WordText, status |-> "success"],
      [translation |-> ErrorText, status |-> "error"],
      [translation |-> EmptyText, status |-> "error"],
      [translation |-> SpaceText, status |-> "success"] }

\* translations[chunk_id]: model -> Translation, in the order the models were
\* stored: no model, one model, or the two in translate_chunk's sequential order
ModelOrders == {<<>>, <<"openai">>, <<"claude">>, <<"openai", "claude">>}

ModelMappings ==
    UNION { { [i \in 1..Len(o) |-> <<o[i], recs[i]>>] :
                recs \in [1..Len(o) -> TranslationRecords] } : o \in ModelOrders }

ChunkIdOf(n) == CASE n = 1 -> "1" [] n = 2 -> "2" [] n = 3 -> "3" [] OTHER -> "4"

ParsedChunk(n, references) ==
    [chunk_id |-> ChunkIdOf(n), greek_text |-> "greek", reference_translations |-> references]

\* a fixed behaviour of the libraries for the runs that do not vary it
FixedWorld(text) ==
    IF text = WordText
    THEN [pair |-> [r \in RefTexts |-> IF r = "r1" THEN 2 ELSE 1], full |-> 2]
    ELSE [pair |-> [r \in RefTexts |-> 0], full |-> 0]

FixedScorer == [t \in ScorableTexts |-> FixedWorld(t)]

\* no Evaluator has been constructed
FreshEvaluator ==
    /\ pc = "new"
    /\ metric_handlers = {}
    /\ chunk_idx = 1
    /\ all_evaluations = <<>>
    /\ summary = NoSummary
    /\ raised = "none"
    /\ calls = <<>>
    /\ log = <<>>

\* blind_translations has not been started
BlindAtRest ==
    /\ blind_pc = "idle"
    /\ data = <<>>
    /\ models_in_data = <<>>
    /\ base_perm = <<>>
    /\ blind_idx = 1
    /\ blinded_output = <<>>
    /\ key_per_chunk = <<>>

\* parse_content has not been called
ParserAtRest ==
    /\ parser_pc = "idle"
    /\ parts = <<>>
    /\ part_i = 1
    /\ chunks = <<>>

\* no translate_* method has been called
RetryAtRest ==
    /\ tr_pc = "idle"
    /\ attempt = 0
    /\ api_calls = <<>>
    /\ returned = <<>>

\* translate_chunk has not been called
DispatchAtRest ==
    /\ tc_pc = "idle"
    /\ self_models = <<>>
    /\ parallel = FALSE
    /\ worker_result = <<>>
    /\ futures = <<>>
    /\ model_idx = 1
    /\ results = <<>>

\* evaluate_translation_file has not been called
LegacyAtRest ==
    /\ legacy_pc = "idle"
    /\ legacy_input = <<>>
    /\ item_idx = 1
    /\ all_results = <<>>
    /\ model_names = {}
    /\ aggregated = <<>>

ToolsAtRest ==
    /\ ParserAtRest
    /\ RetryAtRest
    /\ DispatchAtRest
    /\ LegacyAtRest

Fresh ==
    /\ BlindAtRest
    /\ ToolsAtRest
    /\ FreshEvaluator

\* a pipeline run: the default metrics, all loaded; one or more chunks, each
\* with the first two references, and any translations
Init ==
    /\ Fresh
    /\ metrics = DefaultMetrics
    /\ init_outcome = [k \in metrics |-> "ok"]
    /\ broken = {}
    /\ flaky = {}
    /\ scorer = FixedScorer
    /\ \E n \in 1..MaxChunks :
          /\ parsed_chunks = [i \in 1..n |-> ParsedChunk(i, <<"r1", "r2">>)]
          /\ \E ids \in SUBSET {ChunkIdOf(i) : i \in 1..n} :
                translations \in [ids -> ModelMappings]

Spec == Init /\ [][Next]_vars

\* the source text handed to evaluate_chunk: the Greek text, or none ("")
SourceTexts == {"greek", ""}

\* a scoring run: up to MaxRequested metrics, all loaded and working; one chunk
\* with any reference list and with or without a source text, one model; the
\* libraries may return anything
InitScore ==
    /\ Fresh
    /\ metrics \in {S \in SUBSET MetricKeys : Cardinality(S) \in 1..MaxRequested}
    /\ init_outcome = [k \in metrics |-> "ok"]
    /\ broken = {}
    /\ flaky = {}
    /\ \E references \in RefLists, source \in SourceTexts :
          parsed_chunks = <<[ParsedChunk(1, references) EXCEPT !.greek_text = source]>>
    /\ \/ /\ translations = <<>>
          /\ scorer = FixedScorer
       \/ /\ translations =
                [id \in {"1"} |->
                    << <<"openai", [translation |-> WordText, status |-> "success"]>> >>]
          /\ \E world \in ScorerWorlds :
                scorer = [t \in ScorableTexts |->
                            IF t = WordText THEN world ELSE FixedWorld(t)]

SpecScore == InitScore /\ [][Next]_vars

\* a configuration run: up to MaxRequested metrics, each loading or failing to
\* load, at most one of the loaded ones raising on every call; one chunk with two
\* references and at most one translation
InitConfig ==
    /\ Fresh
    /\ metrics \in {S \in SUBSET MetricKeys : Cardinality(S) <= MaxRequested}
    /\ init_outcome \in [metrics -> InitOutcomes]
    /\ broken \in {B \in SUBSET {k \in metrics : init_outcome[k] = "ok"} :
                      Cardinality(B) <= 1}
    /\ flaky = {}
    /\ scorer = FixedScorer
    /\ parsed_chunks = <<ParsedChunk(1, <<"r1", "r2">>)>>
    /\ \/ translations = <<>>
       \/ translations \in [{"1"} -> {m \in ModelMappings : Len(m) <= 1}]

SpecConfig == InitConfig /\ [][Next]_vars

\* a run with failing single calls: up to MaxRequested metrics, one of them at
\* least a max-over-references metric, all loaded; the scorer of a max metric
\* raises on some <<metric, reference>> pairs; one chunk with any reference list
\* and at most one translation
FlakyPairs == {F \in SUBSET ((metrics \cap MaxMetrics) \X RefTexts) : Cardinality(F) <= 2}

InitFlaky ==
    /\ Fresh
    /\ metrics \in {S \in SUBSET MetricKeys :
                      Cardinality(S) \in 1..MaxRequested /\ S \cap MaxMetrics # {}}
    /\ init_outcome = [k \in metrics |-> "ok"]
    /\ broken = {}
    /\ flaky \in FlakyPairs
    /\ scorer = FixedScorer
    /\ \E references \in RefLists : parsed_chunks = <<ParsedChunk(1, references)>>
    /\ \/ translations = <<>>
       \/ translations =
             [id \in {"1"} |->
                 << <<"openai", [translation |-> WordText, status |-> "success"]>> >>]

SpecFlaky == InitFlaky /\ [][Next]_vars

\* an aggregation run: aggregate_results on any list of up to MaxEvals records
AggModels == {"A", "B", "C"}

PrimaryScore(name, value) ==
    [metric_name |-> name, score |-> value, details |-> [num_references |-> 2]]

ScoreLists ==
    { <<>>,
      <<PrimaryScore("BLEU-4", 200)>>,
      <<PrimaryScore("BLEU-4", 500)>>,
      <<PrimaryScore("COMET", 800)>>,
      <<PrimaryScore("BLEU-4", 200), PrimaryScore("COMET", 800)>>,
      <<PrimaryScore("BLEU-4", 500), PrimaryScore("COMET", -300)>> }

EvaluationRecords ==
    { [chunk_id |-> "1", model_name |-> m, scores |-> sc, per_reference_scores |-> <<>>] :
        m \in AggModels, sc \in ScoreLists }

InitAgg ==
    /\ BlindAtRest
    /\ ToolsAtRest
    /\ pc = "evaluated"
    /\ metrics = DefaultMetrics
    /\ init_outcome = [k \in metrics |-> "ok"]
    /\ broken = {}
    /\ flaky = {}
    /\ scorer = FixedScorer
    /\ metric_handlers = DefaultMetrics
    /\ parsed_chunks = <<>>
    /\ translations = <<>>
    /\ chunk_idx = 1
    /\ all_evaluations \in SeqsUpTo(EvaluationRecords, MaxEvals)
    /\ summary = NoSummary
    /\ raised = "none"
    /\ calls = <<>>
    /\ log = <<>>

\* a second save_results(evaluations) on the same list and the same Evaluator:
\* aggregate_results builds its dicts afresh and reads the evaluations only
SaveResultsAgain ==
    /\ pc = "saved"
    /\ summary' = aggregate_results(all_evaluations)
    /\ pc' = "saved_again"
    /\ UNCHANGED <<metrics, init_outcome, broken, flaky, scorer, metric_handlers, parsed_chunks,
                   translations, chunk_idx, all_evaluations, raised, calls, log>>
    /\ UNCHANGED <<blind_vars, tool_vars>>

NextAgg == SaveResults \/ SaveResultsAgain

SpecAgg == InitAgg /\ [][NextAgg]_vars

IndexPermutations(n) == {p \in [1..n -> 1..n] : \A i, j \in 1..n : i # j => p[i] # p[j]}
Permuted(s, p) == [i \in 1..Len(s) |-> s[p[i]]]

(***************************************************************************)
(* blind_translations.py.  A JSON object is the sequence of its            *)
(* <<key, value>> pairs in file order (json.load keeps it, and so does a    *)
(* dict that is filled and dumped).  A translation record is known by the  *)
(* chunk and the model it belongs to; raw_response and timestamp are       *)
(* copied like translation and status and are left out.  random.shuffle    *)
(* gives any permutation, depending on --seed.  Chunk ids are digit        *)
(* strings, as the parser writes them.                                     *)
(***************************************************************************)
Keys(object) == [i \in 1..Len(object) |-> object[i][1]]
HasKey(object, key) == \E i \in 1..Len(object) : object[i][1] = key
Lookup(object, key) == object[CHOOSE i \in 1..Len(object) : object[i][1] = key][2]

\* the model names, in the order of list.sort()
ModelAlphabet == <<"claude", "gemini", "openai">>

\* models_in_data.sort()
SortedModels(names) ==
    LET Present(m) == m \in Range(names)
    IN SelectSeq(ModelAlphabet, Present)

\* int(x) for a chunk id of digits
IdNumber(chunk_id) == CHOOSE n \in 1..4 : ChunkIdOf(n) = chunk_id

\* sorted(data.keys(), key=int)
SortedChunkIds(object) ==
    LET ids == Range(Keys(object))
    IN [i \in 1..Len(object) |->
           CHOOSE id \in ids :
               Cardinality({other \in ids : IdNumber(other) < IdNumber(id)}) = i - 1]

\* random.shuffle(base_perm): any arrangement of the models
Shuffles(models) ==
    {Permuted(models, p) : p \in IndexPermutations(Len(models))}

\* base_perm[k:] + base_perm[:k]
Rotated(perm, k) == SubSeq(perm, k + 1, Len(perm)) \o SubSeq(perm, 1, k)

BlindEntry(tr) == [translation |-> tr.translation, status |-> tr.status]

\* the loop over `order`: a model that the chunk does not have is passed over
BlindEntries(order, model_translations) ==
    LET Present(model) == HasKey(model_translations, model)
        present == SelectSeq(order, Present)
    IN [i \in 1..Len(present) |-> BlindEntry(Lookup(model_translations, present[i]))]

\* lines 36-42: next(iter(data.keys())) raises StopIteration on an empty object
BlindLoad ==
    /\ blind_pc = "start"
    /\ IF data = <<>>
       THEN /\ blind_pc' = "failed"
            /\ UNCHANGED <<models_in_data, base_perm>>
       ELSE /\ models_in_data' = SortedModels(Keys(data[1][2]))
            /\ base_perm' \in Shuffles(SortedModels(Keys(data[1][2])))
            /\ blind_pc' = "loop"
    /\ UNCHANGED <<data, blind_idx, blinded_output, key_per_chunk>>
    /\ UNCHANGED <<evaluator_vars, tool_vars>>

\* what one pass of the loop stores for chunk_id with this order
BlindStore(chunk_id, order) ==
    /\ blinded_output' =
          Append(blinded_output, <<chunk_id, BlindEntries(order, Lookup(data, chunk_id))>>)
    /\ key_per_chunk' = Append(key_per_chunk, <<chunk_id, order>>)

\* lines 48-66, one pass: idx % len(base_perm) raises ZeroDivisionError when the
\* first chunk has no model
BlindChunk ==
    /\ blind_pc = "loop"
    /\ blind_idx <= Len(data)
    /\ IF base_perm = <<>>
       THEN /\ blind_pc' = "failed"
            /\ UNCHANGED <<blind_idx, blinded_output, key_per_chunk>>
       ELSE /\ BlindStore(SortedChunkIds(data)[blind_idx],
                          Rotated(base_perm, (blind_idx - 1) % Len(base_perm)))
            /\ blind_idx' = blind_idx + 1
            /\ UNCHANGED blind_pc
    /\ UNCHANGED <<data, models_in_data, base_perm>>
    /\ UNCHANGED <<evaluator_vars, tool_vars>>

\* lines 68-87: the blinded JSON and the key are written
BlindWrite ==
    /\ blind_pc = "loop"
    /\ blind_idx > Len(data)
    /\ blind_pc' = "written"
    /\ UNCHANGED <<data, models_in_data, base_perm, blind_idx, blinded_output, key_per_chunk>>
    /\ UNCHANGED <<evaluator_vars, tool_vars>>

NextBlind == BlindLoad \/ BlindChunk \/ BlindWrite

\* the models a translations file may name, and the orders a chunk may hold them in
BlindModels == {"claude", "openai"}
BlindModelOrders == DistinctSeqs(BlindModels, Cardinality(BlindModels))

BlindRecord(chunk_id, model) ==
    [translation |-> <<"text", chunk_id, model>>, status |-> "success"]

BlindChunkEntry(chunk_id, order) ==
    <<chunk_id, [j \in 1..Len(order) |-> <<order[j], BlindRecord(chunk_id, order[j])>>]>>

\* a translations JSON: up to MaxChunks chunks in any order, each with any models
BlindInputs ==
    UNION { { [i \in 1..Len(ids) |-> BlindChunkEntry(ids[i], orders[i])] :
                orders \in [1..Len(ids) -> BlindModelOrders] } :
            ids \in DistinctSeqs({ChunkIdOf(n) : n \in 1..MaxChunks}, MaxChunks) }

InitBlind ==
    /\ FreshEvaluator
    /\ ToolsAtRest
    /\ metrics = DefaultMetrics
    /\ init_outcome = [k \in metrics |-> "ok"]
    /\ broken = {}
    /\ flaky = {}
    /\ scorer = FixedScorer
    /\ parsed_chunks = <<>>
    /\ translations = <<>>
    /\ blind_pc = "start"
    /\ data \in BlindInputs
    /\ models_in_data = <<>>
    /\ base_perm = <<>>
    /\ blind_idx = 1
    /\ blinded_output = <<>>
    /\ key_per_chunk = <<>>

SpecBlind == InitBlind /\ [][NextBlind]_vars

(***************************************************************************)
(* src/parser.py: InputParser.parse_content.  A document is a preamble     *)
(* followed by sections, each begun by a 'Chunk N' marker; re.split hands  *)
(* back [preamble, N1, body1, N2, body2, ...].  A body is its paragraphs,  *)
(* each told apart by what the parser asks of it: "greek" has Greek        *)
(* characters, "english" is substantial text (at least 20 words, over 50   *)
(* characters), "combined" is substantial text of over 400 words that      *)
(* _try_split_combined_references splits in two, "label" is neither.       *)
(***************************************************************************)
\* no Evaluator, and nothing for one to work on
EvaluatorAtRest ==
    /\ FreshEvaluator
    /\ metrics = DefaultMetrics
    /\ init_outcome = [k \in metrics |-> "ok"]
    /\ broken = {}
    /\ flaky = {}
    /\ scorer = FixedScorer
    /\ parsed_chunks = <<>>
    /\ translations = <<>>

\* has_greek_characters(para_clean)
has_greek_characters(para) == para = "greek"

\* is_substantial_text(para_clean, min_words=20)
is_substantial_text(para) == para \in {"english", "combined"}

\* _try_split_combined_references for the paragraphs of over 400 words
SplitReferences(para) ==
    IF para = "combined" THEN <<"first_part", "second_part">> ELSE <<para>>

\* the for-loop over the paragraphs: greek_text as the list of the Greek
\* paragraphs joined by " ", references in the order found
GreekOf(paragraphs) == SelectSeq(paragraphs, has_greek_characters)

ReferencesOf(paragraphs) ==
    LET Reference(para) == ~has_greek_characters(para) /\ is_substantial_text(para)
        found == SelectSeq(paragraphs, Reference)
    IN ConcatAll([n \in 1..Len(found) |-> SplitReferences(found[n])])

\* _parse_chunk_content: <<>> for None, else <<ParsedChunk>>
parse_chunk_content(chunk_number, paragraphs) ==
    IF GreekOf(paragraphs) = <<>> THEN <<>>
    ELSE IF Len(ReferencesOf(paragraphs)) = 0 THEN <<>>
    ELSE << [chunk_id |-> chunk_number,
             greek_text |-> GreekOf(paragraphs),
             reference_translations |-> ReferencesOf(paragraphs)] >>

\* the bodies a section may have
SectionBodies ==
    { <<>>, <<"greek">>, <<"english">>, <<"greek", "english">>,
      <<"greek", "english", "english">>, <<"label", "greek", "greek", "english">>,
      <<"greek", "combined">>, <<"greek", "label">> }

Sections == {ChunkIdOf(n) : n \in 1..MaxChunks} \X SectionBodies

\* re.split(chunk_pattern, content): the preamble, then number and body in turn
SplitParts(sections) ==
    <<"">> \o ConcatAll([n \in 1..Len(sections) |-> <<sections[n][1], sections[n][2]>>])

\* parse_content(content): chunks = [], the split, i = 1
ParseContent ==
    /\ parser_pc = "idle"
    /\ \E sections \in SeqsUpTo(Sections, MaxChunks) : parts' = SplitParts(sections)
    /\ part_i' = 1
    /\ chunks' = <<>>
    /\ parser_pc' = "loop"
    /\ UNCHANGED <<evaluator_vars, blind_vars, retry_vars, dispatch_vars, legacy_vars>>

\* one pass of `while i < len(parts) - 1` (parts[i] of Python is parts[i + 1] here)
ParsePart ==
    /\ parser_pc = "loop"
    /\ part_i < Len(parts) - 1
    /\ chunks' = chunks \o parse_chunk_content(parts[part_i + 1], parts[part_i + 2])
    /\ part_i' = part_i + 2
    /\ UNCHANGED <<parser_pc, parts>>
    /\ UNCHANGED <<evaluator_vars, blind_vars, retry_vars, dispatch_vars, legacy_vars>>

\* the loop is left and chunks is returned
ParseReturn ==
    /\ parser_pc = "loop"
    /\ ~(part_i < Len(parts) - 1)
    /\ parser_pc' = "returned"
    /\ UNCHANGED <<parts, part_i, chunks>>
    /\ UNCHANGED <<evaluator_vars, blind_vars, retry_vars, dispatch_vars, legacy_vars>>

NextParser == ParseContent \/ ParsePart \/ ParseReturn

InitParser ==
    /\ EvaluatorAtRest
    /\ BlindAtRest
    /\ ToolsAtRest

SpecParser == InitParser /\ [][NextParser]_vars

(***************************************************************************)
(* mt_eval/src/translator.py: translate_openai, translate_claude and       *)
(* translate_gemini.  Each API request either raises (with a message that  *)
(* the method takes for retryable or not) or gives a response with a text. *)
(* The texts are the strings below; those that begin with 'ERROR:' and the *)
(* short ones have fewer than 100 characters.                              *)
(***************************************************************************)
OpenAIMaxRetries == 3
ClaudeMaxRetries == 5
GeminiMaxRetries == 5

max_retries(model) ==
    CASE model = "openai" -> OpenAIMaxRetries
      [] model = "claude" -> ClaudeMaxRetries
      [] model = "gemini" -> GeminiMaxRetries

EmptyAfterRetries == "ERROR: Empty response returned after retries"
EmptyReturned == "ERROR: Empty response returned"
UnableToExtract == "ERROR: Unable to extract text from response"

\* what an API response may hold as its text
ResponseTexts ==
    {"", " ", "Translation:", "Translation: short text", "short text",
     "long text of 100 characters or more", "ERROR: said the model"}

\* the outcomes of one API request
ApiOutcomes ==
    [kind : {"exception"}, retryable : BOOLEAN] \cup [kind : {"response"}, text : ResponseTexts]

\* text.strip()
StripText(text) == IF text = " " THEN "" ELSE text

\* text.startswith('ERROR:')
startswith_ERROR(text) ==
    text \in {EmptyAfterRetries, EmptyReturned, UnableToExtract, "ERROR: said the model"}

\* len(text) < 100
Under100(text) == text # "long text of 100 characters or more"

\* extract_translation: the leading 'Translation:' label is removed
extract_translation(raw_response) ==
    CASE raw_response = "Translation:" -> ""
      [] raw_response = "Translation: short text" -> "short text"
      [] OTHER -> raw_response

\* Translation(model_name, translation, raw_response, status, metadata['attempt'])
Translation(model, translation, raw_response, status, n) ==
    [model_name |-> model, translation |-> translation, raw_response |-> raw_response,
     status |-> status, attempt |-> n]

\* the except branches' record: translation='', raw_response='', status='error'
ErrorTranslation(model, n) == Translation(model, "", "", "error", n)

\* what one pass of the loop comes to: `continue`, or the Translation returned
Continue == [continue |-> TRUE]
Return(translation) == [continue |-> FALSE, value |-> translation]

\* the retry guard without its bound on the attempts
LastAttemptNever(model, n) == FALSE

\* `attempt < max_retries - 1` is false
LastAttempt(model, n) == ~(n < max_retries(model) - 1)

\* the body of translate_openai's loop for attempt n and API outcome `out`
openai_pass(n, out) ==
    IF out.kind = "exception"
    THEN IF ~LastAttempt("openai", n) THEN Continue
         ELSE Return(ErrorTranslation("openai", n + 1))
    ELSE LET raw_response == IF out.text # "" THEN StripText(out.text) ELSE ""
         IN IF raw_response = ""
            THEN IF ~LastAttempt("openai", n) THEN Continue
                 ELSE Return(Translation("openai", EmptyAfterRetries, EmptyAfterRetries,
                                         "success", n + 1))
            ELSE IF /\ Under100(extract_translation(raw_response))
                    /\ ~startswith_ERROR(extract_translation(raw_response))
                    /\ ~LastAttempt("openai", n)
            THEN Continue
            ELSE Return(Translation("openai", extract_translation(raw_response),
                                    raw_response, "success", n + 1))

\* the body of translate_claude's loop
claude_pass(n, out) ==
    IF out.kind = "exception"
    THEN IF out.retryable /\ ~LastAttempt("claude", n) THEN Continue
         ELSE Return(ErrorTranslation("claude", n + 1))
    ELSE LET stripped == StripText(out.text)
             raw_response == IF stripped = "" THEN EmptyReturned ELSE stripped
             translation == IF stripped = "" THEN raw_response
                            ELSE extract_translation(raw_response)
         IN Return(Translation("claude", translation, raw_response,
                               IF ~startswith_ERROR(raw_response) THEN "success" ELSE "error",
                               n + 1))

\* the body of translate_gemini's loop
gemini_pass(n, out) ==
    IF out.kind = "exception"
    THEN IF out.retryable /\ ~LastAttempt("gemini", n) THEN Continue
         ELSE Return(ErrorTranslation("gemini", n + 1))
    ELSE LET first == IF out.text # "" THEN StripText(out.text) ELSE UnableToExtract
             raw_response == IF first = "" THEN EmptyReturned ELSE first
             translation == IF first = "" THEN raw_response
                            ELSE extract_translation(raw_response)
         IN Return(Translation("gemini", translation, raw_response,
                               IF raw_response # "" /\ ~startswith_ERROR(raw_response)
                               THEN "success" ELSE "error",
                               n + 1))

\* a translate_* method is called
TranslateCall ==
    /\ tr_pc = "idle"
    /\ tr_pc' \in {"openai", "claude", "gemini"}
    /\ attempt' = 0
    /\ api_calls' = <<>>
    /\ returned' = <<>>
    /\ UNCHANGED <<evaluator_vars, blind_vars, parser_vars, dispatch_vars, legacy_vars>>

\* the value of a call that ends without a return statement
ReturnedNone == [status |-> "None"]

\* after one pass: the method returns, or `for attempt in range(max_retries)`
\* goes on; a loop that runs out would make the method return None
AfterPass(model, out, pass) ==
    /\ api_calls' = Append(api_calls, out)
    /\ IF ~pass.continue
       THEN /\ returned' = <<pass.value>>
            /\ tr_pc' = "returned"
            /\ UNCHANGED attempt
       ELSE IF attempt + 1 < max_retries(model)
       THEN /\ attempt' = attempt + 1
            /\ UNCHANGED <<tr_pc, returned>>
       ELSE /\ returned' = <<ReturnedNone>>
            /\ tr_pc' = "returned"
            /\ UNCHANGED attempt
    /\ UNCHANGED <<evaluator_vars, blind_vars, parser_vars, dispatch_vars, legacy_vars>>

OpenAIAttempt ==
    /\ tr_pc = "openai"
    /\ \E out \in ApiOutcomes : AfterPass("openai", out, openai_pass(attempt, out))

ClaudeAttempt ==
    /\ tr_pc = "claude"
    /\ \E out \in ApiOutcomes : AfterPass("claude", out, claude_pass(attempt, out))

GeminiAttempt ==
    /\ tr_pc = "gemini"
    /\ \E out \in ApiOutcomes : AfterPass("gemini", out, gemini_pass(attempt, out))

NextRetry == TranslateCall \/ OpenAIAttempt \/ ClaudeAttempt \/ GeminiAttempt

InitRetry ==
    /\ EvaluatorAtRest
    /\ BlindAtRest
    /\ ToolsAtRest

SpecRetry == InitRetry /\ [][NextRetry]_vars

(***************************************************************************)
(* mt_eval/src/translator.py: Translator.translate_chunk.  With            *)
(* parallel=True and more than one model each known model's translate_*    *)
(* method is submitted to a thread pool; the workers finish in any order   *)
(* and as_completed hands each future to the main thread once it is done.  *)
(* Otherwise the models are translated one after the other.  A translate_* *)
(* method returns a Translation whatever the API does, so a worker's       *)
(* outcome is the Translation of its model.                                *)
(***************************************************************************)
\* the names translate_chunk has a branch for
KnownModels == {"openai", "claude", "gemini"}

\* what a caller may put into Translator.models: known names and another one
ModelNames == KnownModels \cup {"other"}

\* the Translations a translate_* call of `model` may come to
WorkerOutcomes(model) ==
    { Translation(model, "long text of 100 characters or more",
                  "long text of 100 characters or more", "success", 1),
      ErrorTranslation(model, max_retries(model)) }

\* a dict that holds only the entry written last
StoreResultReplacing(mapping, model, translation) == << <<model, translation>> >>

\* results[model] = translation on an insertion-ordered dict
StoreResult(mapping, model, translation) ==
    IF \E n \in 1..Len(mapping) : mapping[n][1] = model
    THEN [n \in 1..Len(mapping) |->
            IF mapping[n][1] = model THEN <<model, translation>> ELSE mapping[n]]
    ELSE Append(mapping, <<model, translation>>)

\* futures[future] = model for the models with a branch, the others passed over
SubmittedFutures(models) ==
    LET Known(m) == m \in KnownModels
        known == SelectSeq(models, Known)
    IN [n \in 1..Len(known) |-> [model |-> known[n], state |-> "running"]]

\* translate_chunk is called: results = {}, and the futures are submitted if
\* `parallel and len(self.models) > 1`
TranslateChunk ==
    /\ tc_pc = "idle"
    /\ results' = <<>>
    /\ IF parallel /\ Len(self_models) > 1
       THEN /\ futures' = SubmittedFutures(self_models)
            /\ tc_pc' = "as_completed"
       ELSE /\ futures' = <<>>
            /\ tc_pc' = "sequential"
    /\ UNCHANGED <<self_models, parallel, worker_result, model_idx>>
    /\ UNCHANGED <<evaluator_vars, blind_vars, parser_vars, retry_vars, legacy_vars>>

\* a worker thread comes to the end of its translate_* call
WorkerDone ==
    /\ \E n \in 1..Len(futures) :
          /\ futures[n].state = "running"
          /\ futures' = [futures EXCEPT ![n].state = "done"]
    /\ UNCHANGED <<tc_pc, self_models, parallel, worker_result, model_idx, results>>
    /\ UNCHANGED <<evaluator_vars, blind_vars, parser_vars, retry_vars, legacy_vars>>

\* one pass of `for future in as_completed(futures)`: a future that is done and
\* not yet handed out; model = futures[future]; results[model] = future.result()
CollectFuture ==
    /\ tc_pc = "as_completed"
    /\ \E n \in 1..Len(futures) :
          /\ futures[n].state = "done"
          /\ futures' = [futures EXCEPT ![n].state = "collected"]
          /\ results' = StoreResult(results, futures[n].model, worker_result[futures[n].model])
    /\ UNCHANGED <<tc_pc, self_models, parallel, worker_result, model_idx>>
    /\ UNCHANGED <<evaluator_vars, blind_vars, parser_vars, retry_vars, legacy_vars>>

\* every future has been handed out: the with-block is left, return results
ParallelReturn ==
    /\ tc_pc = "as_completed"
    /\ \A n \in 1..Len(futures) : futures[n].state = "collected"
    /\ tc_pc' = "returned"
    /\ UNCHANGED <<self_models, parallel, worker_result, futures, model_idx, results>>
    /\ UNCHANGED <<evaluator_vars, blind_vars, parser_vars, retry_vars, legacy_vars>>

\* one pass of the sequential `for model in self.models`
SequentialModel ==
    /\ tc_pc = "sequential"
    /\ model_idx <= Len(self_models)
    /\ results' = IF self_models[model_idx] \in KnownModels
                  THEN StoreResult(results, self_models[model_idx],
                                   worker_result[self_models[model_idx]])
                  ELSE results
    /\ model_idx' = model_idx + 1
    /\ UNCHANGED <<tc_pc, self_models, parallel, worker_result, futures>>
    /\ UNCHANGED <<evaluator_vars, blind_vars, parser_vars, retry_vars, legacy_vars>>

SequentialReturn ==
    /\ tc_pc = "sequential"
    /\ model_idx > Len(self_models)
    /\ tc_pc' = "returned"
    /\ UNCHANGED <<self_models, parallel, worker_result, futures, model_idx, results>>
    /\ UNCHANGED <<evaluator_vars, blind_vars, parser_vars, retry_vars, legacy_vars>>

NextDispatch ==
    \/ TranslateChunk
    \/ WorkerDone
    \/ CollectFuture
    \/ ParallelReturn
    \/ SequentialModel
    \/ SequentialReturn

\* a Translator with at least one model (the constructor raises without one),
\* each named once, in any order; either mode; any outcome of each worker
InitDispatch ==
    /\ EvaluatorAtRest
    /\ BlindAtRest
    /\ ParserAtRest
    /\ RetryAtRest
    /\ LegacyAtRest
    /\ tc_pc = "idle"
    /\ self_models \in DistinctSeqs(ModelNames, Cardinality(KnownModels)) \ {<<>>}
    /\ \E m \in 1..Len(self_models) : self_models[m] \in KnownModels
    /\ parallel \in BOOLEAN
    /\ \E w \in [KnownModels -> BOOLEAN] :
          worker_result = [m \in KnownModels |->
              CHOOSE t \in WorkerOutcomes(m) : (t.status = "success") = w[m]]
    /\ futures = <<>>
    /\ model_idx = 1
    /\ results = <<>>

SpecDispatch == InitDispatch /\ [][NextDispatch]_vars

(***************************************************************************)
(* evaluation/scripts/translation_evaluator.py: the legacy                 *)
(* TranslationEvaluator.  evaluate_translation_file goes through the items *)
(* of the translations file, scores each model's 'completed' translation   *)
(* against the gold standard of the item and aggregates.  A hypothesis is  *)
(* told apart by what evaluate_single_pair makes of it; model_names is a   *)
(* Python set, whose iteration order is not fixed.                         *)
(***************************************************************************)
\* `for model in ['openai', 'claude', 'gemini']`
LegacyModels == <<"openai", "claude", "gemini">>

\* evaluate_single_pair(hypothesis, gold_standard, chunk_id, model): the
\* <<metric_name, score>> of the metrics that gave a result, in order
evaluate_single_pair(hypothesis) ==
    CASE hypothesis = "good" -> << <<"ROUGE-L", 800>>, <<"chrF", 600>> >>
      [] hypothesis = "poor" -> << <<"ROUGE-L", 200>> >>
      [] OTHER -> <<>>

\* the EvaluationResult records of one (item, model)
PairResults(chunk_id, model, hypothesis) ==
    LET pairs == evaluate_single_pair(hypothesis)
    IN [n \in 1..Len(pairs) |->
          [metric_name |-> pairs[n][1], score |-> pairs[n][2],
           chunk_id |-> chunk_id, model_name |-> model]]

\* `translation_key in item and item.get(status_key) == 'completed'`
IsCompleted(item, model) ==
    item.entries[model] # <<>> /\ item.entries[model][1].status = "completed"

\* the inner loop over the three models for one item: what is added to all_results
ItemResults(item) ==
    ConcatAll([n \in 1..Len(LegacyModels) |->
        IF IsCompleted(item, LegacyModels[n])
        THEN PairResults(item.id, LegacyModels[n], item.entries[LegacyModels[n]][1].hypothesis)
        ELSE <<>>])

ItemModels(item) == {m \in Range(LegacyModels) : IsCompleted(item, m)}

\* model_scores of _aggregate_results: the scores of a model, metric by metric
\* in the order of `grouped`
LegacyModelScores(rs, model) ==
    LET metricOrder == InsertionOrder([n \in 1..Len(rs) |-> rs[n].metric_name])
        Of(metric) == LET Mine(r) == r.metric_name = metric /\ r.model_name = model
                          mine == SelectSeq(rs, Mine)
                      IN [n \in 1..Len(mine) |-> mine[n].score]
    IN ConcatAll([k \in 1..Len(metricOrder) |-> Of(metricOrder[k])])

\* model_averages filled without the `if model_scores` test
LegacyModelAveragesAll(rs, names, order) ==
    LET In(m) == m \in names
        iterated == SelectSeq(order, In)
    IN [n \in 1..Len(iterated) |->
          <<iterated[n],
            IF LegacyModelScores(rs, iterated[n]) = <<>> THEN [num |-> 0, den |-> 1]
            ELSE Mean(LegacyModelScores(rs, iterated[n]))>>]

\* model_averages.items(): `for model in model_names` in the set's order, an
\* entry only `if model_scores`
LegacyModelAverages(rs, names, order) ==
    LET Scored(m) == m \in names /\ LegacyModelScores(rs, m) # <<>>
        iterated == SelectSeq(order, Scored)
    IN [n \in 1..Len(iterated) |-> <<iterated[n], Mean(LegacyModelScores(rs, iterated[n]))>>]

\* _aggregate_results(results, model_names)
legacy_aggregate_results(rs, names, order) ==
    [total_evaluations |-> Len(rs),
     models_evaluated |-> names,
     metrics_used |-> InsertionOrder([n \in 1..Len(rs) |-> rs[n].metric_name]),
     model_rankings |-> SortedDescending(LegacyModelAverages(rs, names, order))]

\* the files are loaded: all_results = [], model_names = set()
LegacyLoad ==
    /\ legacy_pc = "start"
    /\ legacy_pc' = "loop"
    /\ item_idx' = 1
    /\ all_results' = <<>>
    /\ model_names' = {}
    /\ UNCHANGED <<legacy_input, aggregated>>
    /\ UNCHANGED <<evaluator_vars, blind_vars, parser_vars, retry_vars, dispatch_vars>>

\* `if chunk_id not in gold_map: continue`
LegacySkipItem ==
    /\ legacy_pc = "loop"
    /\ item_idx <= Len(legacy_input.items)
    /\ legacy_input.items[item_idx].id \notin legacy_input.gold_ids
    /\ item_idx' = item_idx + 1
    /\ UNCHANGED <<legacy_pc, legacy_input, all_results, model_names, aggregated>>
    /\ UNCHANGED <<evaluator_vars, blind_vars, parser_vars, retry_vars, dispatch_vars>>

\* one item with a gold standard: each completed model is scored
LegacyEvaluateItem ==
    /\ legacy_pc = "loop"
    /\ item_idx <= Len(legacy_input.items)
    /\ legacy_input.items[item_idx].id \in legacy_input.gold_ids
    /\ all_results' = all_results \o ItemResults(legacy_input.items[item_idx])
    /\ model_names' = model_names \cup ItemModels(legacy_input.items[item_idx])
    /\ item_idx' = item_idx + 1
    /\ UNCHANGED <<legacy_pc, legacy_input, aggregated>>
    /\ UNCHANGED <<evaluator_vars, blind_vars, parser_vars, retry_vars, dispatch_vars>>

\* aggregated = self._aggregate_results(all_results, model_names); return
LegacyAggregate ==
    /\ legacy_pc = "loop"
    /\ item_idx > Len(legacy_input.items)
    /\ aggregated' = legacy_aggregate_results(all_results, model_names,
                                               legacy_input.set_order)
    /\ legacy_pc' = "returned"
    /\ UNCHANGED <<legacy_input, item_idx, all_results, model_names>>
    /\ UNCHANGED <<evaluator_vars, blind_vars, parser_vars, retry_vars, dispatch_vars>>

NextLegacy == LegacyLoad \/ LegacySkipItem \/ LegacyEvaluateItem \/ LegacyAggregate

\* what an item may hold for a model: no '<model>_translation' key (<<>>), or
\* a translation with its status
LegacyEntry(status, hypothesis) == <<[status |-> status, hypothesis |-> hypothesis]>>

LegacyEntries ==
    { e \in [Range(LegacyModels) -> { <<>>, LegacyEntry("error", "ERROR: failed"),
                                       LegacyEntry("completed", "good"),
                                       LegacyEntry("completed", "poor"),
                                       LegacyEntry("completed", "unscorable") }] :
        /\ e["openai"] \in {LegacyEntry("error", "ERROR: failed"),
                             LegacyEntry("completed", "good"),
                             LegacyEntry("completed", "unscorable")}
        /\ e["claude"] \in {<<>>, LegacyEntry("completed", "good"),
                             LegacyEntry("completed", "poor")}
        /\ e["gemini"] \in {<<>>, LegacyEntry("completed", "poor")} }

\* the translations file: up to MaxChunks items numbered from 1
LegacyItems ==
    UNION { { [n \in 1..k |-> [id |-> ChunkIdOf(n), entries |-> es[n]]] :
                es \in [1..k -> LegacyEntries] } : k \in 1..MaxChunks }

InitLegacy ==
    /\ EvaluatorAtRest
    /\ BlindAtRest
    /\ ParserAtRest
    /\ RetryAtRest
    /\ DispatchAtRest
    /\ legacy_pc = "start"
    /\ legacy_input \in [items : LegacyItems,
                          gold_ids : {{"1"}, {"1", "2"}},
                          set_order : {LegacyModels, <<"gemini", "claude", "openai">>}]
    /\ item_idx = 1
    /\ all_results = <<>>
    /\ model_names = {}
    /\ aggregated = <<>>

SpecLegacy == InitLegacy /\ [][NextLegacy]_vars

(***************************************************************************)
(* Vocabulary of the properties.                                           *)
(***************************************************************************)
Evaluated == pc \in {"evaluated", "saved"}

\* the Translation stored for (chunk_id, model_name)
RecordOf(chunk_id, model_name) ==
    LET mapping == translations[chunk_id]
        n == CHOOSE n \in 1..Len(mapping) : mapping[n][1] = model_name
    IN mapping[n][2]

\* the chunk with this id
ChunkOf(chunk_id) ==
    parsed_chunks[CHOOSE i \in 1..Len(parsed_chunks) : parsed_chunks[i].chunk_id = chunk_id]

\* the positions of all_evaluations that hold the record of (chunk_id, model_name)
EvaluationsOf(chunk_id, model_name) ==
    {i \in 1..Len(all_evaluations) :
        /\ all_evaluations[i].chunk_id = chunk_id
        /\ all_evaluations[i].model_name = model_name}

\* the (chunk position, mapping position) pairs whose chunk evaluate_all has passed
PassedPairs ==
    {pr \in (1..Len(parsed_chunks)) \X (1..2) :
        /\ pr[1] < chunk_idx
        /\ parsed_chunks[pr[1]].chunk_id \in DOMAIN translations
        /\ pr[2] <= Len(translations[parsed_chunks[pr[1]].chunk_id])}

PairModel(pr) == translations[parsed_chunks[pr[1]].chunk_id][pr[2]][1]
PairRecord(pr) == translations[parsed_chunks[pr[1]].chunk_id][pr[2]][2]

\* the metrics evaluate_single asks for a score: COMET only `if source`
ScoredWith(source) ==
    IF source = "" THEN metric_handlers \ {"comet"} ELSE metric_handlers

MetricNamesIn(scores) == {scores[j].metric_name : j \in 1..Len(scores)}

\* score(H, Ri): what the library of `key` returns for the pair
PairValue(key, hypothesis, reference) ==
    LibraryValue(key, scorer[hypothesis].pair[reference])

SetMax(S) == CHOOSE x \in S : \A y \in S : x >= y

\* the primary scores of a model in the input of aggregate_results, as positions
\* <<evaluation, score>>, of every metric or of one
SlotsOf(model) ==
    UNION { {<<i, j>> : j \in 1..Len(all_evaluations[i].scores)} :
              i \in {i \in 1..Len(all_evaluations) : all_evaluations[i].model_name = model} }

SlotsOn(model, metric) ==
    {sl \in SlotsOf(model) : all_evaluations[sl[1]].scores[sl[2]].metric_name = metric}

RECURSIVE SumSlots(_)
SumSlots(S) ==
    IF S = {} THEN 0
    ELSE LET sl == CHOOSE x \in S : TRUE
         IN all_evaluations[sl[1]].scores[sl[2]].score + SumSlots(S \ {sl})

SlotMean(S) == [num |-> SumSlots(S), den |-> Cardinality(S)]

InputModels == {all_evaluations[i].model_name : i \in 1..Len(all_evaluations)}
ScoredModels == {m \in InputModels : SlotsOf(m) # {}}
ScoredOn(metric) == {m \in InputModels : SlotsOn(m, metric) # {}}

\* the first input evaluation of a model, and the first one that holds a score
FirstSeen(model) ==
    CHOOSE i \in 1..Len(all_evaluations) :
        /\ all_evaluations[i].model_name = model
        /\ \A k \in 1..(i - 1) : all_evaluations[k].model_name # model

FirstScored(model) ==
    CHOOSE i \in 1..Len(all_evaluations) :
        /\ all_evaluations[i].model_name = model /\ all_evaluations[i].scores # <<>>
        /\ \A k \in 1..(i - 1) :
              all_evaluations[k].model_name # model \/ all_evaluations[k].scores = <<>>


\* the two summaries agree on by_model, on the by_metric means and best models,
\* and on the ranking sequence
SameSummary(a, b) ==
    /\ a.by_model = b.by_model
    /\ DOMAIN a.by_metric = DOMAIN b.by_metric
    /\ \A k \in DOMAIN a.by_metric :
          /\ Range(a.by_metric[k].means) = Range(b.by_metric[k].means)
          /\ a.by_metric[k].best_model = b.by_metric[k].best_model
    /\ a.overall_rankings = b.overall_rankings

(***************************************************************************)
(* C1.  aggregate_results is order-independent: every permutation of the   *)
(* input list gives the same by_model statistics, the same by_metric means *)
(* and best models and the same overall_rankings sequence, ties included.  *)
(* Fails: models with equal means are ranked (and chosen as best model) in *)
(* the order in which they first appear in the input.                      *)
(***************************************************************************)
C1_OrderIndependent ==
    pc = "saved" =>
        \A p \in IndexPermutations(Len(all_evaluations)) :
            SameSummary(summary, aggregate_results(Permuted(all_evaluations, p)))

(***************************************************************************)
(* C2.  For every max-over-references metric that is active, the score of  *)
(* a hypothesis is the maximum of its single-pair scores, best_reference   *)
(* is the position of a reference that achieves it, and the value is       *)
(* reported as the library gave it (below 0 or above 1 included).          *)
(***************************************************************************)
C2_MaxOverReferences ==
    \A i \in 1..Len(all_evaluations) :
        LET e == all_evaluations[i]
            h == RecordOf(e.chunk_id, e.model_name).translation
            refs == ChunkOf(e.chunk_id).reference_translations
        IN \A key \in MaxMetrics \cap ScoredWith(ChunkOf(e.chunk_id).greek_text) :
              \E j \in 1..Len(e.scores) :
                 /\ e.scores[j].metric_name = MetricName(key)
                 /\ e.scores[j].score =
                        SetMax({PairValue(key, h, refs[n]) : n \in 1..Len(refs)})
                 /\ e.scores[j].details.best_reference \in 1..Len(refs)
                 /\ PairValue(key, h, refs[e.scores[j].details.best_reference])
                        = e.scores[j].score

\* COMET reports 1.5, won by the second of two references
C2_Witness ==
    \E i \in 1..Len(all_evaluations) :
        \E j \in 1..Len(all_evaluations[i].scores) :
            LET sc == all_evaluations[i].scores[j]
                e == all_evaluations[i]
            IN /\ sc.metric_name = "COMET"
               /\ sc.score = 1500
               /\ sc.details.num_references = 2
               /\ sc.details.best_reference = 2
               /\ PairValue("comet", RecordOf(e.chunk_id, e.model_name).translation,
                             ChunkOf(e.chunk_id).reference_translations[1]) < 0

(***************************************************************************)
(* C3.  With one active metric raising on every call, every (chunk, model) *)
(* with a non-blank translation still gets one ChunkEvaluation, holding    *)
(* the scores of exactly the other active metrics, and no exception leaves *)
(* evaluate_single, evaluate_chunk or evaluate_all.                        *)
(***************************************************************************)
C3_PartialFailureIsolation ==
    /\ pc # "failed"
    /\ (Evaluated /\ broken # {}) =>
          \A pr \in PassedPairs :
             ~IsBlankTranslation(PairRecord(pr).translation) =>
                /\ Cardinality(EvaluationsOf(parsed_chunks[pr[1]].chunk_id, PairModel(pr))) = 1
                /\ \A i \in EvaluationsOf(parsed_chunks[pr[1]].chunk_id, PairModel(pr)) :
                      MetricNamesIn(all_evaluations[i].scores)
                          = {MetricName(k) : k \in metric_handlers \ broken}

\* two active metrics, one of them broken, and a record with the other's score
C3_Witness ==
    /\ Evaluated
    /\ Cardinality(metric_handlers) = 2
    /\ Cardinality(broken) = 1
    /\ \E i \in 1..Len(all_evaluations) : Len(all_evaluations[i].scores) = 1

(***************************************************************************)
(* C4.  evaluate_all produces no ChunkEvaluation for a translation whose   *)
(* status is not 'success'.                                                *)
(* Fails: evaluate_all reads only the translation text; an error record    *)
(* whose text is the 'ERROR: ...' placeholder is scored like any other.    *)
(***************************************************************************)
C4_NonSuccessSkipped ==
    \A i \in 1..Len(all_evaluations) :
        RecordOf(all_evaluations[i].chunk_id, all_evaluations[i].model_name).status
            = "success"

(***************************************************************************)
(* C5.  With exactly one reference, the primary scores of a hypothesis are *)
(* the scores of its per-reference breakdown for 'ref1', for every active  *)
(* metric, and every max-over-references score records best_reference 1.   *)
(***************************************************************************)
C5_SingleReferenceEquivalence ==
    \A i \in 1..Len(all_evaluations) :
        LET e == all_evaluations[i]
        IN Len(ChunkOf(e.chunk_id).reference_translations) = 1 =>
              /\ MetricNamesIn(e.scores) =
                    {MetricName(k) : k \in ScoredWith(ChunkOf(e.chunk_id).greek_text)}
              /\ Len(e.per_reference_scores) = 1
              /\ e.per_reference_scores[1][1] = <<"ref", 1>>
              /\ e.per_reference_scores[1][2] = ScoreDict(e.scores)
              /\ \A j \in 1..Len(e.scores) :
                    "best_reference" \in DOMAIN e.scores[j].details =>
                        e.scores[j].details.best_reference = 1

\* one reference, a native and a max-over-references metric both scored
C5_Witness ==
    \E i \in 1..Len(all_evaluations) :
        LET e == all_evaluations[i]
        IN /\ Len(ChunkOf(e.chunk_id).reference_translations) = 1
           /\ Len(e.scores) = 2
           /\ "best_reference" \notin DOMAIN e.scores[1].details
           /\ "best_reference" \in DOMAIN e.scores[2].details

(***************************************************************************)
(* C6.  overall_rankings lists every model that has a primary score        *)
(* exactly once, each with the unweighted mean of all its primary scores   *)
(* over all metrics and chunks, in descending order of that mean.          *)
(***************************************************************************)
C6_GlobalRanking ==
    pc = "saved" =>
        LET r == summary.overall_rankings
        IN /\ {r[i][1] : i \in 1..Len(r)} = ScoredModels
           /\ Len(r) = Cardinality(ScoredModels)
           /\ \A i \in 1..Len(r) : r[i][2] = SlotMean(SlotsOf(r[i][1]))
           /\ \A i, j \in 1..Len(r) : i < j => ~MeanLess(r[i][2], r[j][2])

\* three models with three different means, the best of them not first in the input
C6_Witness ==
    /\ pc = "saved"
    /\ Len(summary.overall_rankings) = 3
    /\ MeanLess(summary.overall_rankings[2][2], summary.overall_rankings[1][2])
    /\ MeanLess(summary.overall_rankings[3][2], summary.overall_rankings[2][2])
    /\ summary.overall_rankings[1][1] = all_evaluations[3].model_name

(***************************************************************************)
(* C7.  For each metric of by_metric, best_model names a model with the    *)
(* highest mean on that metric and carries that mean.  Among models that   *)
(* tie for the highest mean:                                               *)
(*   as claimed  - the one whose first evaluation comes first in the input;*)
(*   as amended  - the one whose first evaluation holding a primary score  *)
(*                 (of any metric) comes first in the input.               *)
(***************************************************************************)
BestModelIsHighest(metric) ==
    LET b == summary.by_metric[metric].best_model
    IN /\ b.name \in ScoredOn(metric)
       /\ b.score = SlotMean(SlotsOn(b.name, metric))
       /\ \A m \in ScoredOn(metric) : ~MeanLess(b.score, SlotMean(SlotsOn(m, metric)))

TiedWithBest(metric) ==
    {m \in ScoredOn(metric) \ {summary.by_metric[metric].best_model.name} :
        MeanEq(SlotMean(SlotsOn(m, metric)), summary.by_metric[metric].best_model.score)}

MetricsInInput ==
    UNION {MetricNamesIn(all_evaluations[i].scores) : i \in 1..Len(all_evaluations)}

C7_FirstSeenWinsTie ==
    pc = "saved" =>
        /\ DOMAIN summary.by_metric = MetricsInInput
        /\ \A metric \in DOMAIN summary.by_metric :
              /\ BestModelIsHighest(metric)
              /\ \A m \in TiedWithBest(metric) :
                    FirstSeen(summary.by_metric[metric].best_model.name) < FirstSeen(m)

C7_FirstScoredWinsTie ==
    pc = "saved" =>
        /\ DOMAIN summary.by_metric = MetricsInInput
        /\ \A metric \in DOMAIN summary.by_metric :
              /\ BestModelIsHighest(metric)
              /\ \A m \in TiedWithBest(metric) :
                    FirstScored(summary.by_metric[metric].best_model.name) < FirstScored(m)

\* two models tie for the highest mean of a metric
C7_Witness ==
    /\ pc = "saved"
    /\ \E metric \in DOMAIN summary.by_metric :
          /\ TiedWithBest(metric) # {}
          /\ Cardinality(ScoredOn(metric)) = 3

(***************************************************************************)
(* C8.  Constructing an Evaluator raises if and only if none of the        *)
(* requested metrics could be initialised.                                 *)
(* Fails: bleu, chrf, rouge and bertscore are guarded by                   *)
(* `except ImportError` alone, so any other exception raised while one of  *)
(* them loads leaves the constructor, whatever else has initialised.       *)
(***************************************************************************)
C8_FatalIffNoMetric ==
    pc # "new" =>
        ((pc = "fatal") <=> (\A k \in metrics : init_outcome[k] # "ok"))

(***************************************************************************)
(* C9.  A requested metric that cannot be constructed is left out of       *)
(* metric_handlers and the run goes on: no evaluation holds a score of it, *)
(* and every metric that did initialise is scored for every evaluated      *)
(* hypothesis.                                                             *)
(* Fails with C8: the exception that C8 lets out of the constructor ends   *)
(* the run although other metrics have initialised.                        *)
(***************************************************************************)
C9_UnavailableExcluded ==
    (pc # "new" /\ \E k \in metrics : init_outcome[k] # "ok") =>
        /\ \A k \in metrics : init_outcome[k] # "ok" => k \notin metric_handlers
        /\ metric_handlers # {} => pc # "fatal"
        /\ \A i \in 1..Len(all_evaluations) :
              MetricNamesIn(all_evaluations[i].scores)
                  = {MetricName(k) : k \in {k \in metrics : init_outcome[k] = "ok"} \ broken}

(***************************************************************************)
(* C10.  A model whose translation is empty or white space gets no         *)
(* ChunkEvaluation and no metric library is called for it; every other     *)
(* model of the chunk gets its ChunkEvaluation.                            *)
(***************************************************************************)
C10_EmptyHypothesis ==
    /\ \A n \in 1..Len(calls) : Strip(calls[n].hypothesis) # <<>>
    /\ \A i \in 1..Len(all_evaluations) :
          Strip(RecordOf(all_evaluations[i].chunk_id,
                         all_evaluations[i].model_name).translation) # <<>>
    /\ \A pr \in PassedPairs :
          LET at == EvaluationsOf(parsed_chunks[pr[1]].chunk_id, PairModel(pr))
          IN IF Strip(PairRecord(pr).translation) = <<>>
             THEN /\ at = {}
                  /\ \E n \in 1..Len(log) :
                        log[n] = SkipWarning(parsed_chunks[pr[1]].chunk_id, PairModel(pr))
             ELSE Cardinality(at) = 1

\* a chunk with a white-space translation and an evaluated one
C10_Witness ==
    \E pr, qr \in PassedPairs :
        /\ pr[1] = qr[1]
        /\ PairRecord(pr).translation = SpaceText
        /\ EvaluationsOf(parsed_chunks[qr[1]].chunk_id, PairModel(qr)) # {}

(***************************************************************************)
(* C11.  The per-reference breakdown does not alter the primary scores:    *)
(* evaluate_chunk with include_per_reference=True returns the same records *)
(* with the same primary scores, in the same order, as with                *)
(* include_per_reference=False, and an exception leaves the one exactly    *)
(* when it leaves the other.  What evaluate_all stored for the chunk is    *)
(* the result with the flag set.                                           *)
(***************************************************************************)
WithoutBreakdown(evaluations) ==
    [i \in 1..Len(evaluations) |-> [evaluations[i] EXCEPT !.per_reference_scores = <<>>]]

\* evaluate_chunk on the n-th parsed chunk, as evaluate_all calls it but for the flag
ChunkResult(n, include_per_reference) ==
    evaluate_chunk(parsed_chunks[n].chunk_id, parsed_chunks[n].greek_text,
                   ModelTranslations(translations[parsed_chunks[n].chunk_id]),
                   parsed_chunks[n].reference_translations, include_per_reference)

SamePrimaryScores(with, without) ==
    /\ with.exc = without.exc
    /\ WithoutBreakdown(with.evaluations) = without.evaluations

C11_BreakdownKeepsPrimary ==
    \A n \in 1..Len(parsed_chunks) :
        (n < chunk_idx /\ parsed_chunks[n].chunk_id \in DOMAIN translations) =>
            /\ SamePrimaryScores(ChunkResult(n, TRUE), ChunkResult(n, FALSE))
            /\ \A i \in 1..Len(all_evaluations) :
                  all_evaluations[i].chunk_id = parsed_chunks[n].chunk_id =>
                      \E k \in 1..Len(ChunkResult(n, FALSE).evaluations) :
                          ChunkResult(n, FALSE).evaluations[k]
                              = [all_evaluations[i] EXCEPT !.per_reference_scores = <<>>]

\* a stored record with primary scores and a breakdown over two references whose
\* first reference scores differently from the whole list
C11_Witness ==
    \E i \in 1..Len(all_evaluations) :
        /\ all_evaluations[i].scores # <<>>
        /\ Len(all_evaluations[i].per_reference_scores) = 2
        /\ all_evaluations[i].per_reference_scores[1][2] # ScoreDict(all_evaluations[i].scores)

(***************************************************************************)
(* C12.  Every score of evaluate_single records the aggregation policy     *)
(* that was applied (native multi-reference or max over references); a     *)
(* score under max over references records the winning reference index as  *)
(* well; methodology_details of the summary maps every metric that appears *)
(* in the scores (by its name in lower case) to its policy.                *)
(* Fails: the details of a BLEU-4, chrF++ or METEOR score hold raw_score,  *)
(* num_references and word_order only, and name no policy.                 *)
(***************************************************************************)
LowerCase(metric_name) ==
    CASE metric_name = "BLEU-4" -> "bleu-4"
      [] metric_name = "chrF++" -> "chrf++"
      [] metric_name = "METEOR" -> "meteor"
      [] metric_name = "ROUGE-L" -> "rouge-l"
      [] metric_name = "BERTScore" -> "bertscore"
      [] metric_name = "BLEURT" -> "bleurt"
      [] metric_name = "COMET" -> "comet"

MaxMetricNames == {MetricName(k) : k \in MaxMetrics}

\* the score names its policy, and the right one for its metric
RecordsPolicy(sc) ==
    /\ "aggregation" \in DOMAIN sc.details
    /\ (sc.details.aggregation = "max") <=> (sc.metric_name \in MaxMetricNames)

RecordsWinner(sc) ==
    sc.metric_name \in MaxMetricNames =>
        /\ "best_reference" \in DOMAIN sc.details
        /\ sc.details.best_reference \in 1..sc.details.num_references

C12_PolicyRecorded ==
    /\ \A i \in 1..Len(all_evaluations) :
          \A j \in 1..Len(all_evaluations[i].scores) :
              /\ RecordsPolicy(all_evaluations[i].scores[j])
              /\ RecordsWinner(all_evaluations[i].scores[j])
    /\ pc = "saved" =>
          \A i \in 1..Len(all_evaluations) :
              \A name \in MetricNamesIn(all_evaluations[i].scores) :
                  /\ LowerCase(name) \in DOMAIN summary.methodology_details
                  /\ (summary.methodology_details[LowerCase(name)] = "max across references")
                        <=> (name \in MaxMetricNames)

(***************************************************************************)
(* C13.  When COMET is active and evaluate_single is given no source text, *)
(* the absence is signalled as a configuration error: an exception         *)
(* reaches the caller or an event naming the missing source is logged, so  *)
(* that the case can be told from a scoring failure of COMET.              *)
(* Fails: `if source:` skips evaluate_comet and nothing is raised or       *)
(* logged; the returned list lacks the COMET score exactly as it does      *)
(* after a scoring failure, which at least logs a warning.                 *)
(***************************************************************************)
\* the warnings evaluate_single and evaluate_per_reference can log about COMET
CometWarnings == {n \in 1..Len(log) : "metric" \in DOMAIN log[n] /\ log[n].metric = "comet"}

SourceAbsenceSignalled == raised # "none" \/ CometWarnings # {}

C13_MissingSourceSignalled ==
    \A i \in 1..Len(all_evaluations) :
        ("comet" \in metric_handlers /\ ChunkOf(all_evaluations[i].chunk_id).greek_text = "")
            => SourceAbsenceSignalled

(***************************************************************************)
(* C14.  No chunk is silently dropped by evaluate_all.  A chunk with no    *)
(* entry in translations is not processed and leaves its warning; a chunk  *)
(* that was processed but had no usable (non-blank) hypothesis yields no   *)
(* ChunkEvaluation and leaves log events of its own, different from those  *)
(* of a chunk that was not processed.                                      *)
(* Fails: a chunk whose entry in translations holds no model at all is     *)
(* passed without any ChunkEvaluation and without any log event.           *)
(***************************************************************************)
\* the warnings logged about a chunk
ChunkEvents(chunk_id) ==
    {log[n] : n \in {n \in 1..Len(log) :
                        "chunk_id" \in DOMAIN log[n] /\ log[n].chunk_id = chunk_id}}

EvaluationsOfChunk(chunk_id) ==
    {i \in 1..Len(all_evaluations) : all_evaluations[i].chunk_id = chunk_id}

NoUsableHypothesis(chunk_id) ==
    \A n \in 1..Len(translations[chunk_id]) :
        Strip(translations[chunk_id][n][2].translation) = <<>>

C14_NoSilentDrop ==
    \A n \in 1..Len(parsed_chunks) :
        n < chunk_idx =>
            IF parsed_chunks[n].chunk_id \notin DOMAIN translations
            THEN /\ ChunkEvents(parsed_chunks[n].chunk_id)
                       = {NoTranslationsWarning(parsed_chunks[n].chunk_id)}
                 /\ EvaluationsOfChunk(parsed_chunks[n].chunk_id) = {}
            ELSE NoUsableHypothesis(parsed_chunks[n].chunk_id) =>
                    /\ EvaluationsOfChunk(parsed_chunks[n].chunk_id) = {}
                    /\ ChunkEvents(parsed_chunks[n].chunk_id) # {}
                    /\ NoTranslationsWarning(parsed_chunks[n].chunk_id)
                          \notin ChunkEvents(parsed_chunks[n].chunk_id)

(***************************************************************************)
(* C15.  For every (model, metric) entry of by_model, count is the number  *)
(* of input ChunkEvaluations of that model that hold a score of that       *)
(* metric: the number of the model's evaluations less those in which the   *)
(* metric is missing.  by_model has an entry for exactly the (model,       *)
(* metric) pairs with a score, and the counts add up to the number of      *)
(* primary scores in the input.                                            *)
(***************************************************************************)
EvaluationsOfModel(model) ==
    {i \in 1..Len(all_evaluations) : all_evaluations[i].model_name = model}

EvaluationsLacking(model, metric) ==
    {i \in EvaluationsOfModel(model) : metric \notin MetricNamesIn(all_evaluations[i].scores)}

CountedPairs ==
    UNION { {<<m, k>> : k \in DOMAIN summary.by_model[m]} : m \in DOMAIN summary.by_model }

RECURSIVE SumCounts(_)
SumCounts(pairs) ==
    IF pairs = {} THEN 0
    ELSE LET pr == CHOOSE x \in pairs : TRUE
         IN summary.by_model[pr[1]][pr[2]].count + SumCounts(pairs \ {pr})

AllSlots == UNION {SlotsOf(m) : m \in InputModels}

C15_CountPerModelMetric ==
    pc = "saved" =>
        /\ DOMAIN summary.by_model = ScoredModels
        /\ \A m \in DOMAIN summary.by_model :
              /\ DOMAIN summary.by_model[m] = {k \in MetricsInInput : SlotsOn(m, k) # {}}
              /\ \A k \in DOMAIN summary.by_model[m] :
                    summary.by_model[m][k].count =
                        Cardinality(EvaluationsOfModel(m))
                            - Cardinality(EvaluationsLacking(m, k))
        /\ SumCounts(CountedPairs) = Cardinality(AllSlots)

\* a model with two evaluations, one of which lacks the COMET score
C15_Witness ==
    /\ pc = "saved"
    /\ \E m \in DOMAIN summary.by_model :
          /\ DOMAIN summary.by_model[m] = {"BLEU-4", "COMET"}
          /\ summary.by_model[m]["BLEU-4"].count = 2
          /\ summary.by_model[m]["COMET"].count = 1

(***************************************************************************)
(* C16.  The summary of aggregate_results always carries a machine-        *)
(* readable caveat saying that the overall ranking assumes equal weighting *)
(* of the metrics.                                                         *)
(* Fails: the summary has the keys methodology, methodology_details,       *)
(* by_model, by_metric, by_reference, overall_rankings and detailed_scores *)
(* and none of them speaks of the weighting.                               *)
(***************************************************************************)
\* the keys under which a summary could carry such a note
CaveatKeys == {"caveat", "caveats", "methodology_notes", "ranking_caveat", "notes"}

C16_EqualWeightCaveat ==
    pc = "saved" =>
        \/ DOMAIN summary \cap CaveatKeys # {}
        \/ \E k \in DOMAIN summary.methodology_details :
              summary.methodology_details[k] \notin {"multi-reference", "max across references"}

(***************************************************************************)
(* C17.  Aggregation is a barrier after evaluation: a summary exists only  *)
(* once evaluate_all has returned, every chunk of parsed_chunks has then   *)
(* been passed, and the summary is computed from the full list of          *)
(* ChunkEvaluations of all chunks, never from a part of it.                *)
(***************************************************************************)
\* what evaluate_chunk returns for every chunk that has translations, in chunk order
FullEvaluations ==
    ConcatAll([n \in 1..Len(parsed_chunks) |->
        IF parsed_chunks[n].chunk_id \in DOMAIN translations
        THEN evaluate_chunk(parsed_chunks[n].chunk_id, parsed_chunks[n].greek_text,
                            ModelTranslations(translations[parsed_chunks[n].chunk_id]),
                            parsed_chunks[n].reference_translations, TRUE).evaluations
        ELSE <<>>])

C17_AggregationBarrier ==
    IF pc = "saved"
    THEN /\ chunk_idx > Len(parsed_chunks)
         /\ all_evaluations = FullEvaluations
         /\ summary = aggregate_results(FullEvaluations)
         /\ Len(summary.detailed_scores) = Len(FullEvaluations)
    ELSE summary = NoSummary

\* a summary over the records of two chunks
C17_Witness ==
    /\ pc = "saved"
    /\ \E i, j \in 1..Len(summary.detailed_scores) :
          /\ summary.detailed_scores[i].chunk_id = "1"
          /\ summary.detailed_scores[j].chunk_id = "2"

(***************************************************************************)
(* C18.  Policy selection per metric family, for one hypothesis and n >= 1 *)
(* references.                                                             *)
(*   as claimed - evaluate_single calls the scorer of each active native   *)
(*     metric exactly once with the whole ordered reference list, and the  *)
(*     scorer of each active max-over-references metric exactly n times,   *)
(*     once per reference with that reference alone, in reference order;   *)
(*   as amended - the same for every scorer that does not raise, COMET     *)
(*     being called only when a source text is given; a call that raises   *)
(*     ends the loop of its metric, so a max-over-references scorer that   *)
(*     raises on every call is called once, with the first reference; with *)
(*     no source text the COMET scorer is not called.                      *)
(***************************************************************************)
\* the calls evaluate_single makes to the scorer of `key`, in order
ScorerCalls(key, cs) ==
    LET Mine(c) == c.metric = key
    IN SelectSeq(cs, Mine)

OncePerReference(key, hypothesis, references) ==
    [n \in 1..Len(references) |-> Call(key, hypothesis, <<references[n]>>)]

NativeCalledOnce(hypothesis, references, cs) ==
    \A key \in NativeMetrics \cap metric_handlers :
        ScorerCalls(key, cs) = <<Call(key, hypothesis, references)>>

MaxCalledPerReference(hypothesis, references, cs) ==
    \A key \in MaxMetrics \cap metric_handlers :
        ScorerCalls(key, cs) = OncePerReference(key, hypothesis, references)

MaxCalledUntilRaise(hypothesis, references, source, cs) ==
    \A key \in MaxMetrics \cap metric_handlers :
        ScorerCalls(key, cs) =
            IF key = "comet" /\ source = "" THEN <<>>
            ELSE IF key \in broken THEN <<Call(key, hypothesis, <<references[1]>>)>>
            ELSE OncePerReference(key, hypothesis, references)

EntryMatchesKey(chunk_id, i) ==
    /\ i <= Len(Lookup(key_per_chunk, chunk_id))
    /\ HasKey(Lookup(data, chunk_id), Lookup(key_per_chunk, chunk_id)[i])
    /\ Lookup(blinded_output, chunk_id)[i] =
          BlindEntry(Lookup(Lookup(data, chunk_id), Lookup(key_per_chunk, chunk_id)[i]))

C19_KeyGivesModelOrder ==
    blind_pc = "written" =>
        \A n \in 1..Len(blinded_output) :
            /\ HasKey(key_per_chunk, blinded_output[n][1])
            /\ \A i \in 1..Len(blinded_output[n][2]) :
                  EntryMatchesKey(blinded_output[n][1], i)

(***************************************************************************)
(* C20.  blind_translations keeps the chunk order: the chunks of the       *)
(* blinded output and of order_per_chunk come in the order in which they   *)
(* come in the input translations JSON, whatever that order is.            *)
(* Fails: the chunks are written in ascending order of int(chunk_id).      *)
(***************************************************************************)
C20_ChunkOrderKept ==
    blind_pc = "written" =>
        /\ Keys(blinded_output) = Keys(data)
        /\ Keys(key_per_chunk) = Keys(data)

(***************************************************************************)
(* C22.  evaluate_all returns exactly one ChunkEvaluation for each (chunk, *)
(* model) pair whose chunk is in parsed_chunks and has an entry in         *)
(* translations and whose translation text is not blank, and none for any  *)
(* other pair; the records come in chunk order and, within a chunk, in the *)
(* order of the models in the chunk's translation mapping.                 *)
(***************************************************************************)
\* the (chunk_id, model) pairs of one chunk that are to be evaluated, in mapping order
PairsToEvaluate(chunk_id) ==
    LET NotBlank(item) == Strip(item[2].translation) # <<>>
        kept == SelectSeq(translations[chunk_id], NotBlank)
    IN [i \in 1..Len(kept) |-> <<chunk_id, kept[i][1]>>]

AllPairsToEvaluate ==
    ConcatAll([n \in 1..Len(parsed_chunks) |->
        IF parsed_chunks[n].chunk_id \in DOMAIN translations
        THEN PairsToEvaluate(parsed_chunks[n].chunk_id)
        ELSE <<>>])

C22_OneRecordPerPair ==
    Evaluated =>
        [i \in 1..Len(all_evaluations) |->
            <<all_evaluations[i].chunk_id, all_evaluations[i].model_name>>]
          = AllPairsToEvaluate

\* two chunks, three records, and a blank translation that was passed over
C22_Witness ==
    /\ Evaluated
    /\ Len(all_evaluations) = 3
    /\ all_evaluations[1].model_name # all_evaluations[2].model_name
    /\ \E pr \in PassedPairs : Strip(PairRecord(pr).translation) = <<>>

(***************************************************************************)
(* C24.  For every max-over-references metric and n >= 1 references, the   *)
(* recorded best_reference is the 1-based position of a reference of the   *)
(* list, lies in 1..n, and is the lowest position among the references     *)
(* that achieve the maximum score; a hypothesis that scores highest        *)
(* against the first reference has best_reference = 1.                     *)
(***************************************************************************)
\* the positions of the references on which `key` gives the hypothesis its best score
WinningPositions(key, hypothesis, references) ==
    LET values == {PairValue(key, hypothesis, references[n]) : n \in 1..Len(references)}
    IN {n \in 1..Len(references) :
            PairValue(key, hypothesis, references[n]) = SetMax(values)}

LowestOf(S) == CHOOSE n \in S : \A m \in S : n <= m

C24_LowestWinningReference ==
    \A i \in 1..Len(all_evaluations) :
        LET e == all_evaluations[i]
            h == RecordOf(e.chunk_id, e.model_name).translation
            refs == ChunkOf(e.chunk_id).reference_translations
        IN \A j \in 1..Len(e.scores) :
              \A key \in MaxMetrics :
                 e.scores[j].metric_name = MetricName(key) =>
                    /\ e.scores[j].details.best_reference \in 1..Len(refs)
                    /\ e.scores[j].details.best_reference
                          = LowestOf(WinningPositions(key, h, refs))
                    /\ (1 \in WinningPositions(key, h, refs)
                          => e.scores[j].details.best_reference = 1)

\* two references tie at the maximum and the first one is recorded
C24_Witness ==
    \E i \in 1..Len(all_evaluations) :
        LET e == all_evaluations[i]
            h == RecordOf(e.chunk_id, e.model_name).translation
            refs == ChunkOf(e.chunk_id).reference_translations
        IN \E j \in 1..Len(e.scores) :
              /\ e.scores[j].metric_name = "BLEURT"
              /\ Len(refs) = 2
              /\ WinningPositions("bleurt", h, refs) = {1, 2}
              /\ e.scores[j].details.best_reference = 1

(***************************************************************************)
(* C30.  In the summary of aggregate_results the models of by_model are    *)
(* the models of overall_rankings and are the models with at least one     *)
(* primary score in the input, while detailed_scores has one entry per     *)
(* input evaluation: a model whose evaluations all have an empty score     *)
(* list is in detailed_scores but in neither by_model nor the rankings.    *)
(***************************************************************************)
RankedModels == {summary.overall_rankings[i][1] : i \in 1..Len(summary.overall_rankings)}

DetailedModels == {summary.detailed_scores[i].model_name : i \in 1..Len(summary.detailed_scores)}

C30_SummaryDetailConsistency ==
    pc = "saved" =>
        /\ DOMAIN summary.by_model = ScoredModels
        /\ RankedModels = ScoredModels
        /\ Len(summary.overall_rankings) = Cardinality(ScoredModels)
        /\ Len(summary.detailed_scores) = Len(all_evaluations)
        /\ \A i \in 1..Len(all_evaluations) :
              /\ summary.detailed_scores[i].model_name = all_evaluations[i].model_name
              /\ summary.detailed_scores[i].chunk_id = all_evaluations[i].chunk_id
        /\ \A m \in InputModels \ ScoredModels :
              /\ m \in DetailedModels
              /\ m \notin DOMAIN summary.by_model
              /\ m \notin RankedModels

\* two scored models and a third whose only evaluation holds no score
C30_Witness ==
    /\ pc = "saved"
    /\ Cardinality(ScoredModels) = 2
    /\ Cardinality(InputModels) = 3
    /\ Len(summary.detailed_scores) = 3
    /\ Len(summary.overall_rankings) = 2

FailingOn(references) ==
    {key \in metric_handlers \cap MaxMetrics :
        \E n \in 1..Len(references) : <<key, references[n]>> \in flaky}

\* the score an active metric has when no call of it raises
ExpectedScore(key, hypothesis, references) ==
    IF key \in MaxMetrics
    THEN SetMax({PairValue(key, hypothesis, references[n]) : n \in 1..Len(references)})
    ELSE IF key = "meteor"
    THEN LibraryValue(key, CallLevel(hypothesis, references))
    ELSE Normalize(LibraryValue(key, CallLevel(hypothesis, references)))

\* the primary scores as a set of <<metric name, score>>
ScorePairs(scores) == {<<scores[j].metric_name, scores[j].score>> : j \in 1..Len(scores)}

C29_AllOrNothingMax ==
    Evaluated =>
        \A i \in 1..Len(all_evaluations) :
            LET e == all_evaluations[i]
                h == RecordOf(e.chunk_id, e.model_name).translation
                refs == ChunkOf(e.chunk_id).reference_translations
            IN /\ ScorePairs(e.scores) =
                     {<<MetricName(key), ExpectedScore(key, h, refs)>> :
                         key \in metric_handlers \ FailingOn(refs)}
               /\ Len(e.per_reference_scores) = Len(refs)
               /\ \A r \in 1..Len(refs) :
                     /\ e.per_reference_scores[r][1] = <<"ref", r>>
                     /\ \A key \in metric_handlers \cap MaxMetrics :
                           IF <<key, refs[r]>> \in flaky
                           THEN \A j \in 1..Len(e.per_reference_scores[r][2]) :
                                   e.per_reference_scores[r][2][j][1] # MetricName(key)
                           ELSE <<MetricName(key), PairValue(key, h, refs[r])>>
                                   \in Range(e.per_reference_scores[r][2])

\* ROUGE-L raises on the second of two references only: no ROUGE-L among the
\* primary scores, ROUGE-L in the breakdown of the first reference, and the
\* other metric scored
C29_Witness ==
    /\ Evaluated
    /\ Len(all_evaluations) = 1
    /\ "rouge" \in metric_handlers
    /\ Cardinality(metric_handlers) = 2
    /\ Len(parsed_chunks[1].reference_translations) = 2
    /\ flaky = {<<"rouge", parsed_chunks[1].reference_translations[2]>>}
    /\ Len(all_evaluations[1].scores) = 1
    /\ all_evaluations[1].scores[1].metric_name # "ROUGE-L"
    /\ \E j \in 1..Len(all_evaluations[1].per_reference_scores[1][2]) :
          all_evaluations[1].per_reference_scores[1][2][j][1] = "ROUGE-L"

(***************************************************************************)
(* C23.  Every chunk that parse_content returns has a non-empty Greek      *)
(* source text and at least one reference translation, and the chunk_ids   *)
(* of the returned chunks are pairwise distinct, for every input document, *)
(* one that repeats a 'Chunk N' marker included.                           *)
(* Fails: chunk_id is the number of the marker as written, and nothing     *)
(* compares it with the ids already in the list; a document with two       *)
(* 'Chunk 1' sections gives two chunks with chunk_id '1'.                  *)
(***************************************************************************)
C23_ChunkInvariant ==
    parser_pc = "returned" =>
        /\ \A n \in 1..Len(chunks) :
              /\ chunks[n].greek_text # <<>>
              /\ Len(chunks[n].reference_translations) >= 1
        /\ \A n, k \in 1..Len(chunks) : n # k => chunks[n].chunk_id # chunks[k].chunk_id

(***************************************************************************)
(* C26.  Whatever the API does at each request (raise, empty response,     *)
(* short response, normal response), translate_openai makes at most 3      *)
(* requests and translate_claude and translate_gemini at most 5, each      *)
(* returns a Translation (never leaves its loop to return nothing), and in *)
(* translate_claude and translate_gemini an exception that is not          *)
(* retryable ends the call on the attempt where it occurs, with status     *)
(* 'error'.                                                                *)
(***************************************************************************)
\* the method whose call is running or has returned
MethodCalled ==
    IF tr_pc = "returned" THEN returned[1].model_name ELSE tr_pc

NotRetryable(out) == out.kind = "exception" /\ ~out.retryable

C26_BoundedRetry ==
    /\ tr_pc \in {"openai", "claude", "gemini"} =>
          /\ Len(api_calls) = attempt
          /\ attempt < max_retries(tr_pc)
          /\ returned = <<>>
    /\ tr_pc = "returned" =>
          /\ returned[1].status \in {"success", "error"}
          /\ Len(api_calls) = returned[1].attempt
          /\ Len(api_calls) <= max_retries(returned[1].model_name)
    /\ \A n \in 1..Len(api_calls) :
          (tr_pc # "idle" /\ MethodCalled \in {"claude", "gemini"} /\ NotRetryable(api_calls[n])) =>
              /\ n = Len(api_calls)
              /\ tr_pc = "returned"
              /\ returned[1].status = "error"
              /\ returned[1].attempt = n

\* translate_claude gave up on a non-retryable exception at its third request,
\* after two retryable ones
C26_Witness ==
    /\ tr_pc = "returned"
    /\ returned[1].model_name = "claude"
    /\ returned[1].status = "error"
    /\ Len(api_calls) = 3
    /\ NotRetryable(api_calls[3])

(***************************************************************************)
(* C27.  No Translation returned by translate_openai, translate_claude or  *)
(* translate_gemini has status 'success' while its translation text is an  *)
(* 'ERROR: ...' placeholder or empty; when every attempt gives an empty    *)
(* response the record returned has status 'error'.                        *)
(* Fails: translate_openai sets the text to 'ERROR: Empty response         *)
(* returned after retries' on the last attempt and goes on to the common   *)
(* return, whose status is the literal 'success'.                          *)
(***************************************************************************)
\* every request of the call gave a response with no text
AllEmpty == \A n \in 1..Len(api_calls) :
                api_calls[n].kind = "response" /\ StripText(api_calls[n].text) = ""

C27_StatusMatchesText ==
    tr_pc = "returned" =>
        /\ returned[1].status = "success" =>
              /\ ~startswith_ERROR(returned[1].translation)
              /\ returned[1].translation # ""
        /\ AllEmpty => returned[1].status = "error"

(***************************************************************************)
(* C28.  For every set of active models and every order in which the       *)
(* worker threads finish, translate_chunk with parallel=True returns a     *)
(* mapping with exactly one Translation per active model, stored under     *)
(* that model's key and being that model's own result: the key set and the *)
(* result under each key are those of the sequential mode for the same     *)
(* per-model outcomes.                                                     *)
(***************************************************************************)
\* the models of self.models that translate_chunk has a translate_* method for
ActiveModels == {self_models[n] : n \in 1..Len(self_models)} \cap KnownModels

RECURSIVE SequentialResults(_)
\* what the sequential loop stores for the models given
SequentialResults(models) ==
    IF models = <<>> THEN <<>>
    ELSE LET before == SequentialResults(SubSeq(models, 1, Len(models) - 1))
             m == models[Len(models)]
         IN IF m \in KnownModels THEN StoreResult(before, m, worker_result[m]) ELSE before

C28_ParallelAsSequential ==
    (tc_pc = "returned" /\ parallel) =>
        /\ Len(results) = Cardinality(ActiveModels)
        /\ {results[n][1] : n \in 1..Len(results)} = ActiveModels
        /\ \A n \in 1..Len(results) :
              /\ results[n][2] = worker_result[results[n][1]]
              /\ results[n][2].model_name = results[n][1]
        /\ Range(results) = Range(SequentialResults(self_models))

\* three workers that finished in another order than they were submitted in
C28_Witness ==
    /\ tc_pc = "returned"
    /\ parallel
    /\ Len(futures) = 3
    /\ Len(results) = 3
    /\ results[1][1] = self_models[3]
    /\ results[1][2].status = "error"
    /\ results[3][2].status = "success"

(***************************************************************************)
(* C21.  The result of TranslationEvaluator.evaluate_translation_file has  *)
(* a model_rankings that lists exactly the models that received at least   *)
(* one score, ordered by descending mean of all their scores flattened     *)
(* across metrics; model_rankings[0] exists and names the best-performing  *)
(* model whenever an item with a gold standard has a translation with      *)
(* status 'completed' that at least one metric scored.                     *)
(***************************************************************************)
\* the scores a model receives, read off the input files: as positions
\* <<item, metric>> of the items with a gold standard and a completed translation
LegacySlots(model) ==
    UNION { {<<n, k>> : k \in 1..Len(evaluate_single_pair(
                                  legacy_input.items[n].entries[model][1].hypothesis))} :
              n \in {n \in 1..Len(legacy_input.items) :
                        /\ legacy_input.items[n].id \in legacy_input.gold_ids
                        /\ IsCompleted(legacy_input.items[n], model)} }

LegacySlotScore(model, slot) ==
    evaluate_single_pair(legacy_input.items[slot[1]].entries[model][1].hypothesis)[slot[2]][2]

RECURSIVE LegacySlotSum(_, _)
LegacySlotSum(model, S) ==
    IF S = {} THEN 0
    ELSE LET slot == CHOOSE x \in S : TRUE
         IN LegacySlotScore(model, slot) + LegacySlotSum(model, S \ {slot})

LegacyMean(model) ==
    [num |-> LegacySlotSum(model, LegacySlots(model)), den |-> Cardinality(LegacySlots(model))]

LegacyScored == {m \in Range(LegacyModels) : LegacySlots(m) # {}}

====
